---- MODULE Spec2Model ----
(***************************************************************************)
(* GigaFlair SIP2 bridge: the per-branch connection manager                *)
(* (src/src/services/SipConnectionManager.ts): the FIFO promise chain that *)
(* serialises operations, client acquisition with the login handshake, the *)
(* circuit breaker with its backoff schedule, shutdown and reinitialize.   *)
(***************************************************************************)
EXTENDS Integers, Sequences, FiniteSets, TLC

\* ------------------------------------------------------------------ bounds

\* Number of caller slots: an execute() call takes the lowest free slot and
\* gives it back when its future settles, so any number of calls is made over
\* time and at most MaxOps of them are unsettled at once.
MaxOps == 2

\* The breaker's failure counter is unbounded in the code: calls stop failing
\* once it has reached MaxFailures, the test-only _simulateFailure once it has
\* reached MaxSimulated.
MaxFailures == 4

MaxSimulated == 8

\* Date.now() is read MaxTicks clock steps after construction at the latest.
MaxTicks == 2

\* Calls made on one SipClient over its life, any number of them unsettled at
\* once.
MaxReqs == 3

\* Sockets one SipClient creates over its life.
MaxSockets == 3

\* Bytes of a stream the reassembler is fed with.
MaxStream == 5

\* Transaction events handed to the event bus.
MaxEvents == 3

\* Characters of a string a caller hands to a formatter.
MaxField == 2

\* ------------------------------------------------------- program constants

FAILURE_THRESHOLD == 3

BACKOFF_SCHEDULE == <<5000, 10000, 20000, 40000, 60000>>

\* The clock is sampled every 10 s: the second backoff interval ends exactly
\* on a sample, the first between two.
TimeStep == BACKOFF_SCHEDULE[2]

StartTime == TimeStep

MaxTime == StartTime + MaxTicks * TimeStep

\* getAvailableSeqNum: ten sequence numbers, 0..9.
SeqNumbers == 10

\* performLogin(client, config, retries = 2)
LoginRetries == 2

\* Branch ids callers pass to the manager; the configured ones are the keys
\* of the configs / breakers maps.
BranchIds == {"main"}

Ops == 1..MaxOps

Reqs == 1..MaxReqs

SockIds == 1..MaxSockets

VARIABLES
    configs,     \* Map branchId -> [login: BOOLEAN] (sipUser && sipPassword set)
    breakers,    \* Map branchId -> CircuitBreaker
    clients,     \* keys of the clients map: branches with a cached SipClient
    queues,      \* Map branchId -> tail of the promise chain
    ops,         \* caller slots: the execute() calls that have not settled
    reinit,      \* the reinitialize() call in progress, if any
    now,         \* Date.now()
    hist,        \* history: per breaker record, failures and trips since the last success
    before,      \* history: per slot, the calls of its branch submitted earlier and not settled
    last         \* history: what the last step did to which call

\* One SipClient (sip-client.ts), as its callers and its socket drive it.
VARIABLES
    socket,          \* this.socket: 0 (null) or the id of a socket
    socks,           \* every socket the client has created: id -> its state
    connectPromise,  \* 0 (null) or the socket id of the connect attempt awaited
    pending,         \* this.pending: the entries of the Map, [seq, req]
    nextSeqNum,      \* this.nextSeqNum
    buffer,          \* this.buffer
    checksumRequired,
    reqs,            \* caller slots: the sendRaw() calls that have not settled
    clast            \* history: what the last step of the client did

\* The frame reassembler fed with a byte stream, chunk by chunk.
VARIABLES
    stream,          \* bytes the socket has still to deliver
    whole,           \* history: the stream as a whole
    dispatched       \* history: per read, the messages handed to handleMessage

\* The event bus (EventHub.ts) with its subscribers and the event loop's
\* queue of setImmediate callbacks.
VARIABLES
    listeners,       \* the listeners of SIP2_TRANSACTION_LOGGED, in subscription order
    immediates,      \* setImmediate callbacks not yet run: the payload of each
    emitted,         \* history: the number of emitLog calls made
    received,        \* history: per listener function, the payloads it was called with
    since            \* history: per listener, the callbacks run before it subscribed

\* MaskingService.maskPayload applied to the payload of a transaction event.
VARIABLES
    masterKey,       \* process.env.GIGAFLAIR_MASTER_KEY is set
    payload,         \* the payload _executeInner builds: its string fields
    event            \* what maskPayload made of it

\* A request formatter (sip-formatter.ts) and the write of its frame.
VARIABLES
    request,         \* the formatter called and its caller-supplied strings
    frame,           \* the string the formatter returned
    written          \* the bytes handed to socket.write

\* SipConnectionManager.blockPatron running SipClient.blockPatron.
VARIABLES
    returned         \* history: the blockPatron calls of the client whose
                     \* promise the manager's _executeInner has awaited

\* The response parsers of sip-parser.ts.
VARIABLES
    answer,          \* history: the response the LMS sent
    rawFrame,        \* the frame sendRaw resolved with
    parsed           \* what the response parser returned

\* MaskingService.maskPayload given two payloads.
VARIABLES
    twin,            \* two payloads, alike but for their password strings
    logged           \* what maskPayload returned for each

mvars == <<configs, breakers, clients, queues, ops, reinit, now, hist, before, last>>

cvars == <<socket, socks, connectPromise, pending, nextSeqNum, buffer,
           checksumRequired, reqs, clast>>

rvars == <<stream, whole, dispatched>>

hvars == <<listeners, immediates, emitted, received, since>>

kvars == <<masterKey, payload, event>>

fvars == <<request, frame, written>>

bvars == <<returned>>

pvars == <<answer, rawFrame, parsed>>

tvars == <<twin, logged>>

\* The components beside the manager, the client and the reassembler.
lvars == <<hvars, kvars, fvars, bvars, pvars, tvars>>

exceptHub == <<mvars, cvars, rvars, kvars, fvars, bvars, pvars, tvars>>

exceptMask == <<mvars, cvars, rvars, hvars, fvars, bvars, pvars, tvars>>

exceptFormat == <<mvars, cvars, rvars, hvars, kvars, bvars, pvars, tvars>>

vars == <<mvars, cvars, rvars, lvars>>

\* ------------------------------------------------------------ breaker record

\* number | null fields are sets: {} is null, {t} is the number t.
Truthy(s) == \E t \in s : t # 0

NewBreaker ==
    [state |-> "CLOSED", failureCount |-> 0, lastFailureAt |-> {},
     nextRetryAt |-> {}, backoffIndex |-> 0, halfOpenLocked |-> FALSE]

\* The retry time is not compared with the clock.
BackoffExpiredNoClock(br, t) ==
    br.state = "OPEN" /\ Truthy(br.nextRetryAt)

BackoffExpired(br, t) ==
    br.state = "OPEN" /\ Truthy(br.nextRetryAt) /\ \A r \in br.nextRetryAt : t >= r

\* getCircuitState: the lazy OPEN -> HALF_OPEN transition (the lock is not touched).
CircuitStateRefresh(br, t) ==
    IF BackoffExpired(br, t) THEN [br EXCEPT !.state = "HALF_OPEN"] ELSE br

\* getClient, the synchronous gate: the breaker after it, and whether the call
\* is admitted or which error is thrown.
GateLocked(r) ==
    r.halfOpenLocked

getClientGate(br, t) ==
    LET r == IF BackoffExpired(br, t)
             THEN [br EXCEPT !.state = "HALF_OPEN", !.halfOpenLocked = FALSE]
             ELSE br
    IN  IF r.state = "OPEN"
        THEN [outcome |-> "CircuitOpen", breaker |-> r]
        ELSE IF r.state = "HALF_OPEN"
        THEN IF GateLocked(r)
             THEN [outcome |-> "ProbeInFlight", breaker |-> r]
             ELSE [outcome |-> "admit", breaker |-> [r EXCEPT !.halfOpenLocked = TRUE]]
        ELSE [outcome |-> "admit", breaker |-> r]

\* The failure count survives a success.
recordSuccessKeepsCount(br) ==
    [br EXCEPT !.state = "CLOSED", !.backoffIndex = 0,
               !.nextRetryAt = {}, !.halfOpenLocked = FALSE]

recordSuccess(br) ==
    [br EXCEPT !.state = "CLOSED", !.failureCount = 0, !.backoffIndex = 0,
               !.nextRetryAt = {}, !.halfOpenLocked = FALSE]

\* The interval is read after the index has advanced.
BackoffAtAdvanced(i) ==
    IF i + 2 \in DOMAIN BACKOFF_SCHEDULE
    THEN BACKOFF_SCHEDULE[i + 2]
    ELSE BACKOFF_SCHEDULE[Len(BACKOFF_SCHEDULE)]

\* BACKOFF_SCHEDULE[backoffIndex] || BACKOFF_SCHEDULE[BACKOFF_SCHEDULE.length - 1]
BackoffAt(i) ==
    IF i + 1 \in DOMAIN BACKOFF_SCHEDULE /\ BACKOFF_SCHEDULE[i + 1] # 0
    THEN BACKOFF_SCHEDULE[i + 1]
    ELSE BACKOFF_SCHEDULE[Len(BACKOFF_SCHEDULE)]

\* The threshold is compared with > instead of >=.
TripsAboveThreshold(br) ==
    br.failureCount + 1 > FAILURE_THRESHOLD \/ br.state = "HALF_OPEN"

\* Whether recordFailure, called on br, takes the transition to OPEN.
Trips(br) ==
    br.failureCount + 1 >= FAILURE_THRESHOLD \/ br.state = "HALF_OPEN"

\* The index advances without its ceiling.
NextBackoffIndexNoCeiling(i) ==
    i + 1

NextBackoffIndex(i) ==
    IF i < Len(BACKOFF_SCHEDULE) - 1 THEN i + 1 ELSE i

\* The failure leaves the probe lock as it was.
recordFailureKeepsLock(br, t) ==
    LET counted == [br EXCEPT !.failureCount = br.failureCount + 1,
                              !.lastFailureAt = {t}]
    IN  IF Trips(br)
        THEN [counted EXCEPT !.state = "OPEN",
                             !.nextRetryAt = {t + BackoffAt(br.backoffIndex)},
                             !.backoffIndex = NextBackoffIndex(br.backoffIndex)]
        ELSE counted

recordFailure(br, t) ==
    LET counted == [br EXCEPT !.failureCount = br.failureCount + 1,
                              !.lastFailureAt = {t},
                              !.halfOpenLocked = FALSE]
    IN  IF Trips(br)
        THEN [counted EXCEPT !.state = "OPEN",
                             !.nextRetryAt = {t + BackoffAt(br.backoffIndex)},
                             !.backoffIndex = NextBackoffIndex(br.backoffIndex)]
        ELSE counted

\* ------------------------------------------------------------------ strings

UpperCase == "ABCDEFGHIJKLMNOPQRSTUVWXYZ"

LowerCase == "abcdefghijklmnopqrstuvwxyz"

toLowerChar(c) ==
    IF \E i \in 1..Len(UpperCase) : SubSeq(UpperCase, i, i) = c
    THEN LET i == CHOOSE i \in 1..Len(UpperCase) : SubSeq(UpperCase, i, i) = c
         IN SubSeq(LowerCase, i, i)
    ELSE c

RECURSIVE toLowerCase(_)
toLowerCase(str) ==
    IF Len(str) = 0 THEN ""
    ELSE toLowerChar(SubSeq(str, 1, 1)) \o toLowerCase(SubSeq(str, 2, Len(str)))

\* str.includes(pattern)
includes(str, pattern) ==
    \E i \in 1..(Len(str) - Len(pattern) + 1) :
        SubSeq(str, i, i + Len(pattern) - 1) = pattern

\* ------------------------------------------------------------ error messages

\* The messages of the errors getClient throws at the gate (lines 79, 84).
GateMessage(outcome) ==
    IF outcome = "CircuitOpen"
    THEN "Circuit for branch main is OPEN. Next retry at 1970-01-01T00:00:20.000Z"
    ELSE "Circuit for branch main is HALF_OPEN (probe in flight)"

\* The messages of the errors performLogin ends with: those of connect and
\* sendRaw, of the socket, of the rejected login and of the post-login SC
\* Status.
LoginErrors ==
    {"Connection timeout", "Connection closed", "connect ECONNREFUSED 127.0.0.1:6001",
     "read ECONNRESET", "SIP2 Checksum Mismatch", "Sequence number 0 already in use",
     "SIP Request Timeout", "Socket not available",
     "SIP2 Login rejected (response: 940AY)",
     "Unexpected response to SC Status (expected 98, got: 96AZF)"}

\* Every error of getClient is taken for a gate rejection.
isCircuitGateAlways(error) == TRUE

\* Only the 'is OPEN' message is recognised.
isCircuitGateOpenOnly(error) ==
    includes(error, "is OPEN")

\* _executeInner's test on the error thrown by getClient.
isCircuitGate(error) ==
    includes(error, "is OPEN") \/ includes(error, "probe in flight")

\* ------------------------------------------------------ the promise chain

\* The queue stores the callback's own promise, which rejects with the call.
chainHandleRaw(outcome) ==
    IF outcome = "resolved" THEN "fulfilled" ELSE "rejected"

\* execute: what the handle stored in the queues map settles to, given how the
\* chained callback ended ("resolved", "rejected": _executeInner's result;
\* "skipped": the callback never ran). The callback catches every error and
\* the handle is current.then(() => {}, () => {}).
chainHandle(outcome) ==
    "fulfilled"

IdleOp ==
    [status |-> "idle", branch |-> "main", prev |-> 0, skip |-> FALSE,
     behind |-> FALSE, probe |-> FALSE, shut |-> FALSE]

NoQueue == [present |-> FALSE, tail |-> 0, state |-> "fulfilled"]

NoLast == [step |-> "none", branch |-> "main", result |-> "none", pre |-> "none", behind |-> FALSE, events |-> 0]

NoReinit == [pc |-> "idle", wait |-> {}]

\* reinitialize has just run shutdown() and rebuilt the maps.
TornDown == [NoLast EXCEPT !.step = "reinitialize"]

InFlight(o) == ops[o].status \in {"login", "running", "caught"}

\* Calls whose turn of the event loop is between maskPayload's throw and the
\* catch block: nothing else runs until the catch block has.
Caught == {o \in Ops : ops[o].status = "caught"}

Unsettled(o) == ops[o].status # "idle"

PreState(b) == IF b \in DOMAIN breakers THEN breakers[b].state ELSE "none"

\* The chained callback of call o has ended with `outcome`: its chain handle
\* settles, the callbacks chained on it are scheduled (or skipped, if the
\* handle rejected), and a drain waiting on it goes on.
SettleChain(o, newOp, outcome) ==
    LET h == chainHandle(outcome) IN
    /\ ops' = [p \in Ops |->
                 IF p = o THEN newOp
                 ELSE IF ops[p].status = "queued" /\ ops[p].prev = o
                      THEN [ops[p] EXCEPT !.prev = 0, !.skip = (h = "rejected"),
                                          !.behind = (outcome = "rejected")]
                      ELSE ops[p]]
    /\ queues' = [b \in DOMAIN queues |->
                 IF queues[b].present /\ queues[b].tail = o
                 THEN [present |-> TRUE, tail |-> 0, state |-> h]
                 ELSE queues[b]]
    /\ reinit' = [reinit EXCEPT !.wait = @ \ {o}]
    /\ before' = [p \in Ops |-> IF p = o THEN {} ELSE before[p] \ {o}]

\* resolve(result) / reject(err): the caller's future settles, the slot is free.
Settle(o, outcome) ==
    SettleChain(o, IdleOp, outcome)

\* ------------------------------------------------------------- operations

\* execute(branchId, ...): chain the call behind the branch's queue tail.
execute(o, b) ==
    /\ UNCHANGED <<cvars, rvars, lvars>>
    /\ Caught = {}
    /\ ops[o].status = "idle"
    /\ \A p \in Ops : p < o => ops[p].status # "idle"
    /\ LET q == queues[b] IN
       /\ ops' = [ops EXCEPT ![o] =
                     [status |-> "queued", branch |-> b,
                      prev |-> IF q.present THEN q.tail ELSE 0,
                      skip |-> q.present /\ q.tail = 0 /\ q.state = "rejected",
                      behind |-> FALSE,
                      probe |-> FALSE,
                      shut |-> FALSE]]
       /\ queues' = [queues EXCEPT ![b] =
                     [present |-> TRUE, tail |-> o, state |-> "pending"]]
    /\ before' = [before EXCEPT ![o] =
                     {p \in Ops \ {o} : Unsettled(p) /\ ops[p].branch = b}]
    /\ last' = NoLast
    /\ UNCHANGED <<configs, breakers, clients, reinit, now, hist>>

\* A manager with one breaker for all branches.
RecordFailureOnAll(b, br) ==
    /\ breakers' = [c \in DOMAIN breakers |-> recordFailure(br, now)]
    /\ clients' = IF Trips(br) THEN {} ELSE clients
    /\ hist' = [hist EXCEPT ![b] =
                  [consec |-> @.consec + 1,
                   trips |-> IF Trips(br) THEN @.trips + 1 ELSE @.trips]]

\* recordFailure(branchId) on the manager's maps, br being the branch's record:
\* the cached client is disconnected and deleted on the transition to OPEN.
RecordFailureOn(b, br) ==
    /\ breakers' = [breakers EXCEPT ![b] = recordFailure(br, now)]
    /\ clients' = IF Trips(br) THEN clients \ {b} ELSE clients
    /\ hist' = [hist EXCEPT ![b] =
                  [consec |-> @.consec + 1,
                   trips |-> IF Trips(br) THEN @.trips + 1 ELSE @.trips]]

RecordSuccessOn(b) ==
    /\ breakers' = [breakers EXCEPT ![b] = recordSuccess(@)]
    /\ hist' = [hist EXCEPT ![b] = [consec |-> 0, trips |-> 0]]
    /\ UNCHANGED clients

CanRecordFailure(b) ==
    b \in DOMAIN breakers => breakers[b].failureCount < MaxFailures

\* _executeInner, first catch block: getClient threw err, br being the record
\* the gate left behind.
GetClientThrew(o, b, err, br) ==
    /\ IF isCircuitGate(err)
       THEN /\ breakers' = [breakers EXCEPT ![b] = br]
            /\ UNCHANGED <<clients, hist>>
       ELSE RecordFailureOn(b, br)
    /\ Settle(o, "rejected")

\* The chained callback runs: _executeInner up to the end of the synchronous
\* part of getClient.
StartOp(o) ==
    /\ UNCHANGED <<cvars, rvars, lvars>>
    /\ Caught = {}
    /\ ops[o].status = "queued"
    /\ ops[o].prev = 0
    /\ LET b == ops[o].branch IN
       IF ops[o].skip
       THEN \* the handle it was chained on rejected: the callback never runs
            /\ SettleChain(o, [ops[o] EXCEPT !.status = "dropped"], "skipped")
            /\ last' = [step |-> "getClient", branch |-> b, result |-> "skipped",
                        pre |-> "none", behind |-> FALSE, events |-> 0]
            /\ UNCHANGED <<configs, breakers, clients, now, hist>>
       ELSE IF b \notin DOMAIN breakers
       THEN \* getBreaker throws; so does recordFailure in the catch block
            /\ Settle(o, "rejected")
            /\ last' = [step |-> "getClient", branch |-> b, result |-> "UnknownBranch",
                        pre |-> "none", behind |-> FALSE, events |-> 0]
            /\ UNCHANGED <<configs, breakers, clients, now, hist>>
       ELSE LET g == getClientGate(breakers[b], now) IN
            /\ last' = [step |-> "getClient", branch |-> b, result |-> g.outcome,
                        pre |-> "none", behind |-> ops[o].behind, events |-> 0]
            /\ IF g.outcome # "admit"
               THEN GetClientThrew(o, b, GateMessage(g.outcome), g.breaker)
               ELSE /\ breakers' = [breakers EXCEPT ![b] = g.breaker]
                    /\ ops' = [ops EXCEPT ![o].status =
                                  IF b \notin clients /\ configs[b].login
                                  THEN "login" ELSE "running",
                               ![o].behind = FALSE,
                               ![o].probe = (g.breaker.state = "HALF_OPEN")]
                    /\ clients' = IF configs[b].login THEN clients ELSE clients \cup {b}
                    /\ UNCHANGED <<queues, reinit, before, hist>>
            /\ UNCHANGED <<configs, now>>

\* performLogin ends (after at most three attempts): the client is cached and
\* the action starts, or the client is disconnected and the failure recorded.
LoginDone(o, ok) ==
    /\ UNCHANGED <<cvars, rvars, lvars>>
    /\ Caught = {}
    /\ ops[o].status = "login"
    /\ LET b == ops[o].branch IN
       /\ last' = [step |-> "performLogin", branch |-> b,
                   result |-> IF ok THEN "ok" ELSE "fail",
                   pre |-> IF ok THEN "none" ELSE PreState(b), behind |-> FALSE, events |-> 0]
       /\ IF ok
          THEN /\ clients' = clients \cup {b}
               /\ ops' = [ops EXCEPT ![o].status = "running"]
               /\ UNCHANGED <<breakers, queues, reinit, hist, before>>
          ELSE /\ CanRecordFailure(b)
               /\ \E error \in LoginErrors :
                     IF b \in DOMAIN breakers /\ ~isCircuitGate(error)
                     THEN RecordFailureOn(b, breakers[b])
                     ELSE UNCHANGED <<breakers, clients, hist>>
               /\ Settle(o, "rejected")
    /\ UNCHANGED <<configs, now>>

transactionEventsAlways(ok) == 1

\* EventHub.emitLog(MaskingService.maskPayload({action, branchId, request,
\* response, timestamp})): the transaction events the step hands to the bus.
transactionEvents(ok) == IF ok THEN 1 ELSE 0

\* _executeInner after await action(client): the LMS answered or the frame
\* of a Block Patron was written (ok), or the request failed (timeout,
\* checksum, parser, socket error).
ActionEnds(o, ok) ==
    /\ Caught = {}
    /\ ops[o].status = "running"
    /\ LET b == ops[o].branch IN
       IF b \notin DOMAIN breakers
       THEN \* recordSuccess / recordFailure throw 'Unknown branch'
            /\ Settle(o, "rejected")
            /\ last' = [step |-> "action", branch |-> b, result |-> "UnknownBranch",
                        pre |-> PreState(b), behind |-> FALSE, events |-> 0]
            /\ UNCHANGED <<breakers, clients, hist>>
       ELSE /\ last' = [step |-> "action", branch |-> b,
                        result |-> IF ok THEN "ok" ELSE "fail", pre |-> PreState(b),
                        behind |-> FALSE, events |-> transactionEvents(ok)]
            /\ IF ok
               THEN /\ RecordSuccessOn(b)
                    /\ Settle(o, "resolved")
               ELSE /\ CanRecordFailure(b)
                    /\ RecordFailureOn(b, breakers[b])
                    /\ Settle(o, "rejected")
    /\ UNCHANGED <<configs, now>>

\* The action of a call ends, whatever it was.
ActionDone(o, ok) ==
    /\ UNCHANGED <<cvars, rvars, lvars>>
    /\ ActionEnds(o, ok)

\* action(client) resolved and recordSuccess ran, then
\* MaskingService.maskPayload threw (no master key, a payload with a patron
\* or item field): emitLog is not reached and control passes to the second
\* catch block, in the same turn of the event loop.
maskPayloadThrew(o) ==
    /\ UNCHANGED <<cvars, rvars, lvars>>
    /\ Caught = {}
    /\ ops[o].status = "running"
    /\ LET b == ops[o].branch IN
       /\ b \in DOMAIN breakers
       /\ RecordSuccessOn(b)
       /\ last' = [step |-> "recordSuccess", branch |-> b, result |-> "ok",
                   pre |-> PreState(b), behind |-> FALSE, events |-> 0]
    /\ ops' = [ops EXCEPT ![o].status = "caught"]
    /\ UNCHANGED <<configs, queues, reinit, before, now>>

\* _executeInner, second catch block, entered from maskPayload: the failure
\* is recorded and the error rethrown to the caller.
_executeInnerCatch(o) ==
    /\ UNCHANGED <<cvars, rvars, lvars>>
    /\ ops[o].status = "caught"
    /\ LET b == ops[o].branch IN
       /\ RecordFailureOn(b, breakers[b])
       /\ Settle(o, "rejected")
       /\ last' = [step |-> "action", branch |-> b, result |-> "fail",
                   pre |-> PreState(b), behind |-> FALSE, events |-> 0]
    /\ UNCHANGED <<configs, now>>

\* getCircuitState(branchId), as called by the status route.
getCircuitState(b) ==
    /\ UNCHANGED <<cvars, rvars, lvars>>
    /\ Caught = {}
    /\ b \in DOMAIN breakers
    /\ breakers[b] # CircuitStateRefresh(breakers[b], now)
    /\ breakers' = [breakers EXCEPT ![b] = CircuitStateRefresh(@, now)]
    /\ last' = NoLast
    /\ UNCHANGED <<configs, clients, queues, ops, reinit, now, hist, before>>

ShutdownQueues == [b \in DOMAIN queues |-> NoQueue]

\* History: the calls in flight when shutdown() runs are marked.
ShutdownOps == [o \in Ops |-> [ops[o] EXCEPT !.shut = @ \/ InFlight(o)]]

\* shutdown(): disconnect and forget every client, clear the queues map.
shutdown ==
    /\ UNCHANGED <<cvars, rvars, lvars>>
    /\ Caught = {}
    /\ clients' = {}
    /\ queues' = ShutdownQueues
    /\ ops' = ShutdownOps
    /\ last' = NoLast
    /\ UNCHANGED <<configs, breakers, reinit, now, hist, before>>

\* Configurations reinitialize() is given.
ConfigChoices ==
    UNION {[S -> [login : BOOLEAN]] : S \in SUBSET BranchIds}

\* reinitialize, after the drain: shutdown(), then rebuild configs and breakers.
Rebuild(cfg) ==
    /\ clients' = {}
    /\ queues' = ShutdownQueues
    /\ ops' = ShutdownOps
    /\ configs' = cfg
    /\ breakers' = [b \in DOMAIN cfg |-> NewBreaker]
    /\ hist' = [b \in DOMAIN cfg |-> [consec |-> 0, trips |-> 0]]

\* reinitialize(newConfigs): with no queue in the map nothing is awaited.
reinitialize ==
    /\ UNCHANGED <<cvars, rvars, lvars>>
    /\ Caught = {}
    /\ reinit.pc = "idle"
    /\ IF \A b \in DOMAIN queues : ~queues[b].present
       THEN /\ \E cfg \in ConfigChoices : Rebuild(cfg)
            /\ last' = TornDown
            /\ UNCHANGED <<reinit, now, before>>
       ELSE /\ last' = NoLast
            /\ reinit' = [pc |-> "drain",
                          wait |-> {queues[b].tail : b \in {c \in DOMAIN queues :
                                        queues[c].present /\ queues[c].tail # 0}}]
            /\ UNCHANGED <<configs, breakers, clients, queues, ops, now, hist, before>>

\* Promise.allSettled(drainPromises) has settled: the rest of reinitialize
\* runs with the newConfigs it was given, which nothing reads before this step.
reinitializeDrained(cfg) ==
    /\ UNCHANGED <<cvars, rvars, lvars>>
    /\ Caught = {}
    /\ reinit.pc = "drain"
    /\ reinit.wait = {}
    /\ Rebuild(cfg)
    /\ reinit' = NoReinit
    /\ last' = TornDown
    /\ UNCHANGED <<now, before>>

\* Date.now() advances. The clock is read by the breaker alone, so the steps
\* of the clock kept are those made while some breaker waits for its retry time.
Tick ==
    /\ UNCHANGED <<cvars, rvars, lvars>>
    /\ Caught = {}
    /\ now + TimeStep <= MaxTime
    /\ \E b \in DOMAIN breakers :
          breakers[b].state = "OPEN" /\ ~BackoffExpired(breakers[b], now)
    /\ now' = now + TimeStep
    /\ last' = NoLast
    /\ UNCHANGED <<configs, breakers, clients, queues, ops, reinit, hist, before>>

\* ------------------------------------------------- test-only entry points

_simulateFailure(b) ==
    /\ UNCHANGED <<cvars, rvars, lvars>>
    /\ b \in DOMAIN breakers
    /\ breakers[b].failureCount < MaxSimulated
    /\ RecordFailureOn(b, breakers[b])
    /\ last' = [step |-> "simulate", branch |-> b, result |-> "fail", pre |-> PreState(b), behind |-> FALSE, events |-> 0]
    /\ UNCHANGED <<configs, queues, ops, reinit, now, before>>

_simulateSuccess(b) ==
    /\ UNCHANGED <<cvars, rvars, lvars>>
    /\ b \in DOMAIN breakers
    /\ RecordSuccessOn(b)
    /\ last' = [step |-> "simulate", branch |-> b, result |-> "ok", pre |-> PreState(b), behind |-> FALSE, events |-> 0]
    /\ UNCHANGED <<configs, queues, ops, reinit, now, before>>

_expireBackoff(b) ==
    /\ UNCHANGED <<cvars, rvars, lvars>>
    /\ b \in DOMAIN breakers
    /\ breakers[b].state = "OPEN"
    /\ breakers' = [breakers EXCEPT ![b].nextRetryAt = {now - 1}]
    /\ last' = NoLast
    /\ UNCHANGED <<configs, clients, queues, ops, reinit, now, hist, before>>

\* --------------------------------------------------------------- SipClient

\* Bytes are tokens: "x" is any run of bytes free of CR, LF, blanks and of the
\* patterns below; "941" is that text at the head of a frame; "AY<d>AZ" is that text; "AZ" is an AZ not preceded by
\* AY<d>; "CKOK" / "CKBAD" are four hex digits that equal / differ from the
\* checksum of the bytes before them; "CR", "LF", "SP" are \r, \n and a blank.
AYTokens ==
    <<"AY0AZ", "AY1AZ", "AY2AZ", "AY3AZ", "AY4AZ",
      "AY5AZ", "AY6AZ", "AY7AZ", "AY8AZ", "AY9AZ">>

IsAY(tok) == \E i \in DOMAIN AYTokens : AYTokens[i] = tok

AYDigit(tok) == (CHOOSE i \in DOMAIN AYTokens : AYTokens[i] = tok) - 1

NoDigit == 0 - 1

\* message.match(/AY(\d)AZ/): the digit of the first match, anywhere in the
\* message.
matchSeq(message) ==
    LET hits == {i \in DOMAIN message : IsAY(message[i])} IN
    IF hits = {} THEN NoDigit
    ELSE AYDigit(message[CHOOSE i \in hits : \A j \in hits : i <= j])

\* verifyChecksum(message): /AZ([0-9A-Fa-f]{4})\r?$/ and the comparison of the
\* four digits with the checksum of what precedes them.
verifyChecksum(message) ==
    LET m == IF Len(message) > 0 /\ message[Len(message)] = "CR"
             THEN SubSeq(message, 1, Len(message) - 1) ELSE message
        n == Len(m)
    IN /\ n >= 2
       /\ m[n] = "CKOK"
       /\ IsAY(m[n - 1]) \/ m[n - 1] = "AZ"

Whitespace == {"CR", "LF", "SP"}

RECURSIVE trimStart(_)
trimStartNone(str) == str

trimStart(str) ==
    IF str # <<>> /\ Head(str) \in Whitespace THEN trimStart(Tail(str)) ELSE str

indexOfCR(str) ==
    LET at == {i \in DOMAIN str : str[i] = "CR"} IN
    IF at = {} THEN 0 ELSE CHOOSE i \in at : \A j \in at : i <= j

\* processBuffer(): the messages cut off the buffer, in order, and the rest.
RECURSIVE processBuffer(_, _)
processBuffer(buf, out) ==
    LET newlineIndex == indexOfCR(buf) IN
    IF newlineIndex = 0 THEN [buffer |-> buf, messages |-> out]
    ELSE LET message == SubSeq(buf, 1, newlineIndex)
             rest == SubSeq(buf, newlineIndex + 1, Len(buf))
             rest2 == IF rest # <<>> /\ Head(rest) = "LF" THEN Tail(rest) ELSE rest
         IN processBuffer(rest2, Append(out, trimStart(message)))

\* The pending Map as the set of its entries.
pendingHas(p, seqNum) == \E e \in p : e.seq = seqNum

pendingDeleteNothing(p, seqNum) == p

pendingDelete(p, seqNum) == {e \in p : e.seq # seqNum}

pendingSet(p, seqNum, r) == pendingDelete(p, seqNum) \cup {[seq |-> seqNum, req |-> r]}

pendingGet(p, seqNum) == {e \in p : e.seq = seqNum}

\* response.startsWith('941')
startsWith941(message) == message # <<>> /\ Head(message) = "941"

\* The entries rejected with an error, and the entries resolved with a message.
Settled(entries, result) ==
    {[req |-> e.req, seq |-> e.seq, result |-> result, accepted |-> FALSE] :
        e \in entries}

Resolved(entries, message) ==
    {[req |-> e.req, seq |-> e.seq, result |-> "resolved",
      accepted |-> startsWith941(message)] : e \in entries}

seqCandidateNoWrap(c, i) == c + i

\* getAvailableSeqNum() on table p with cursor c.
seqCandidate(c, i) == (c + i) % SeqNumbers

seqCursorAtCandidate(candidate) == candidate

seqCursorAfter(candidate) == (candidate + 1) % SeqNumbers

getAvailableSeqNum(p, c) ==
    LET free == {i \in 0..(SeqNumbers - 1) : ~pendingHas(p, seqCandidate(c, i))} IN
    IF free = {} THEN [ok |-> FALSE, seq |-> NoDigit, next |-> c]
    ELSE LET i == CHOOSE k \in free : \A j \in free : k <= j
             candidate == seqCandidate(c, i)
         IN [ok |-> TRUE, seq |-> candidate, next |-> seqCursorAfter(candidate)]

rejectsChecksumNever(message, required) == FALSE

\* if (!verifyChecksum(message)) { if (this.checksumRequired) { ... return; } }
rejectsChecksum(message, required) == ~verifyChecksum(message) /\ required

\* handleMessage(message) on table p: the table it leaves, the entries it
\* completed and how, and the severity of the dashboard event it starts with.
handleMessage(p, message, required) ==
    LET d == matchSeq(message) IN
    IF rejectsChecksum(message, required)
    THEN [pending |-> IF d # NoDigit THEN pendingDelete(p, d) ELSE p,
          settled |-> IF d # NoDigit
                      THEN Settled(pendingGet(p, d), "ChecksumMismatch") ELSE {},
          parsed |-> FALSE,
          event |-> "error"]
    ELSE LET warned == IF verifyChecksum(message) THEN "info" ELSE "warn" IN
         IF d # NoDigit
         THEN [pending |-> pendingDelete(p, d),
               settled |-> Resolved(pendingGet(p, d), message),
               parsed |-> pendingHas(p, d),
               event |-> warned]
         ELSE IF Cardinality(p) = 1
         THEN [pending |-> {}, settled |-> Resolved(p, message),
               parsed |-> TRUE, event |-> warned]
         ELSE [pending |-> p, settled |-> {}, parsed |-> FALSE, event |-> warned]

\* The socket's data handler: handleMessage on every message, one after the
\* other.
RECURSIVE handleAll(_, _, _, _)
handleAll(p, messages, required, acc) ==
    IF messages = <<>>
    THEN [pending |-> p, settled |-> acc.settled, events |-> acc.events]
    ELSE LET h == handleMessage(p, Head(messages), required) IN
         handleAll(h.pending, Tail(messages), required,
                   [settled |-> acc.settled \cup h.settled,
                    events |-> Append(acc.events, h.event)])

\* A caller slot: the state of the call, its sequence number, what it sends
\* (performLogin's Login frame or the command of a high-level operation), the
\* socket its frame was written to and, of a Login, how it ended.
IdleReq == [status |-> "idle", seq |-> 0, kind |-> "none", sock |-> 0, outcome |-> "none"]

NoCLast == [step |-> "none", settled |-> {}, handled |-> <<>>, events |-> <<>>]

\* What a step tells of the calls it settled: their numbers and outcomes.
Brief(settled) == {[seq |-> e.seq, result |-> e.result] : e \in settled}

\* this.socket && !this.socket.destroyed
SocketLive == socket # 0 /\ socks[socket] \in {"connecting", "open"}

\* socket.destroy() on socket id: its close event is still to come.
Destroyed(sk, id) ==
    IF id # 0 /\ sk[id] \in {"connecting", "open"}
    THEN [sk EXCEPT ![id] = "destroyed"] ELSE sk

DoneReq == [status |-> "done", seq |-> 0, kind |-> "none", sock |-> 0, outcome |-> "none"]

\* The slot of a call settled as e tells: of a Login, whether it was answered
\* by a frame starting with 941 (and on which socket), answered otherwise,
\* failed after its frame was written, or failed before.
Done(slot, e) ==
    IF slot.kind = "block"
    THEN [DoneReq EXCEPT !.kind = "block",
                         !.outcome = IF e.result = "written" THEN "written"
                                     ELSE "failed"]
    ELSE IF slot.kind # "login" THEN DoneReq
    ELSE [DoneReq EXCEPT
            !.kind = "login",
            !.sock = IF e.result = "resolved" /\ e.accepted THEN slot.sock ELSE 0,
            !.outcome = IF e.result = "resolved"
                        THEN IF e.accepted THEN "941" ELSE "rejected"
                        ELSE IF slot.status = "pending" THEN "failed" ELSE "unsent"]

Failed(err) == [result |-> err, accepted |-> FALSE]

\* The socket a frame is written to is remembered for the calls of the
\* manager (kinds "login" and "command").
Track(slot, id) == IF slot.kind = "none" THEN 0 ELSE id

FreeSlots(settled) ==
    [r \in Reqs |-> IF \E e \in settled : e.req = r
                    THEN Done(reqs[r], CHOOSE e \in settled : e.req = r)
                    ELSE reqs[r]]

sendRawExecutorUnchecked(p, r, seqNum, usable) ==
    IF ~usable THEN [pending |-> p, result |-> "SocketNotAvailable"]
    ELSE [pending |-> pendingSet(p, seqNum, r), result |-> "sent"]

\* The promise executor of sendRaw (after await this.connect()) for slot r on
\* table p, the socket being usable or not.
sendRawExecutor(p, r, seqNum, usable) ==
    IF pendingHas(p, seqNum) THEN [pending |-> p, result |-> "SequenceInUse"]
    ELSE IF ~usable THEN [pending |-> p, result |-> "SocketNotAvailable"]
    ELSE [pending |-> pendingSet(p, seqNum, r), result |-> "sent"]

blockPatronWriteTracked(p, r, seqNum, usable) ==
    IF ~usable THEN [pending |-> p, result |-> "SocketNotAvailable"]
    ELSE [pending |-> pendingSet(p, seqNum, r), result |-> "written"]

\* blockPatron after await this.connect(): the frame is written if the socket
\* is usable; the table is not touched.
blockPatronWrite(p, r, seqNum, usable) ==
    IF ~usable THEN [pending |-> p, result |-> "SocketNotAvailable"]
    ELSE [pending |-> p, result |-> "written"]

\* The calls awaiting the connect promise go on, in slot order.
RECURSIVE sendRawAll(_, _, _, _)
sendRawAll(p, waiting, usable, acc) ==
    IF waiting = {} THEN [pending |-> p, results |-> acc]
    ELSE LET r == CHOOSE x \in waiting : \A y \in waiting : x <= y
             e == IF reqs[r].kind = "block"
                  THEN blockPatronWrite(p, r, reqs[r].seq, usable)
                  ELSE sendRawExecutor(p, r, reqs[r].seq, usable)
         IN sendRawAll(e.pending, waiting \ {r}, usable,
                       acc \cup {[req |-> r, seq |-> reqs[r].seq, result |-> e.result,
                                  accepted |-> FALSE]})

Waiting == {r \in Reqs : reqs[r].status = "connect"}

\* A high-level operation (fromAllocator) or performLogin's sendRaw(login, 0)
\* is called, as call r: getAvailableSeqNum, then sendRaw up to its first
\* suspension. kind tells who calls (history): "login" for performLogin,
\* "command" for an operation run by the manager, "none" for any other caller.
sendRaw(r, fromAllocator, kind) ==
    /\ reqs[r].status = "idle"
    /\ \A q \in Reqs : q < r => reqs[q].status # "idle"
    /\ UNCHANGED <<mvars, lvars, rvars, buffer, checksumRequired>>
    /\ LET a == getAvailableSeqNum(pending, nextSeqNum)
           seqNum == IF fromAllocator THEN a.seq ELSE 0
           call == [IdleReq EXCEPT !.seq = seqNum, !.kind = kind]
       IN IF fromAllocator /\ ~a.ok
          THEN /\ clast' = [NoCLast EXCEPT !.step = "sendRaw",
                              !.settled = {[seq |-> NoDigit,
                                            result |-> "ClientAtCapacity"]}]
               /\ reqs' = [reqs EXCEPT ![r] = DoneReq]
               /\ UNCHANGED <<socket, socks, connectPromise, pending, nextSeqNum>>
          ELSE /\ nextSeqNum' = IF fromAllocator THEN a.next ELSE nextSeqNum
               /\ IF SocketLive
                  THEN \* connect() returns a resolved promise
                       LET e == sendRawExecutor(pending, r, seqNum, TRUE) IN
                       /\ pending' = e.pending
                       /\ reqs' = [reqs EXCEPT ![r] =
                                     IF e.result = "sent"
                                     THEN [call EXCEPT !.status = "pending",
                                                       !.sock = Track(call, socket)]
                                     ELSE Done(call, Failed(e.result))]
                       /\ clast' = [NoCLast EXCEPT !.step = "sendRaw",
                                      !.settled = {[seq |-> seqNum,
                                                    result |-> e.result]}]
                       /\ UNCHANGED <<socket, socks, connectPromise>>
                  ELSE IF connectPromise # 0
                  THEN \* connect() returns the promise of the attempt in progress
                       /\ reqs' = [reqs EXCEPT ![r] = [call EXCEPT !.status = "connect"]]
                       /\ clast' = [NoCLast EXCEPT !.step = "connect"]
                       /\ UNCHANGED <<socket, socks, connectPromise, pending>>
                  ELSE \* connect() creates a socket
                       /\ \E id \in SockIds :
                            /\ socks[id] = "unused"
                            /\ \A j \in SockIds : j < id => socks[j] # "unused"
                            /\ socket' = id
                            /\ socks' = [socks EXCEPT ![id] = "connecting"]
                            /\ connectPromise' = id
                            /\ clast' = [NoCLast EXCEPT !.step = "connect"]
                       /\ reqs' = [reqs EXCEPT ![r] = [call EXCEPT !.status = "connect"]]
                       /\ UNCHANGED pending

\* blockPatron(...) is called, as call r: getAvailableSeqNum, the formatter,
\* then connect() and the write, with no entry in the pending table and no
\* timer.
blockPatron(r) ==
    /\ reqs[r].status = "idle"
    /\ \A q \in Reqs : q < r => reqs[q].status # "idle"
    /\ UNCHANGED <<mvars, lvars, rvars, buffer, checksumRequired>>
    /\ LET a == getAvailableSeqNum(pending, nextSeqNum)
           call == [IdleReq EXCEPT !.seq = a.seq, !.kind = "block"]
       IN IF ~a.ok
          THEN /\ clast' = [NoCLast EXCEPT !.step = "blockPatron",
                              !.settled = {[seq |-> NoDigit,
                                            result |-> "ClientAtCapacity"]}]
               /\ reqs' = [reqs EXCEPT ![r] = Done(call, Failed("ClientAtCapacity"))]
               /\ UNCHANGED <<socket, socks, connectPromise, pending, nextSeqNum>>
          ELSE /\ nextSeqNum' = a.next
               /\ IF SocketLive
                  THEN \* connect() returns a resolved promise
                       LET e == blockPatronWrite(pending, r, a.seq, TRUE) IN
                       /\ pending' = e.pending
                       /\ reqs' = [reqs EXCEPT ![r] = Done(call, Failed(e.result))]
                       /\ clast' = [NoCLast EXCEPT !.step = "blockPatron",
                                      !.settled = {[seq |-> a.seq,
                                                    result |-> e.result]}]
                       /\ UNCHANGED <<socket, socks, connectPromise>>
                  ELSE IF connectPromise # 0
                  THEN \* connect() returns the promise of the attempt in progress
                       /\ reqs' = [reqs EXCEPT ![r] = [call EXCEPT !.status = "connect"]]
                       /\ clast' = [NoCLast EXCEPT !.step = "connect"]
                       /\ UNCHANGED <<socket, socks, connectPromise, pending>>
                  ELSE \* connect() creates a socket
                       /\ \E id \in SockIds :
                            /\ socks[id] = "unused"
                            /\ \A j \in SockIds : j < id => socks[j] # "unused"
                            /\ socket' = id
                            /\ socks' = [socks EXCEPT ![id] = "connecting"]
                            /\ connectPromise' = id
                            /\ clast' = [NoCLast EXCEPT !.step = "connect"]
                       /\ reqs' = [reqs EXCEPT ![r] = [call EXCEPT !.status = "connect"]]
                       /\ UNCHANGED pending

\* The connect callback of socket id: the attempt resolves, .finally clears
\* connectPromise and the sendRaw calls awaiting it go on.
connected(id) ==
    /\ socks[id] = "connecting"
    /\ UNCHANGED <<mvars, lvars, rvars, buffer, checksumRequired, nextSeqNum, socket>>
    /\ socks' = [socks EXCEPT ![id] = "open"]
    /\ IF connectPromise = id
       THEN LET usable == socket # 0 /\ socks'[socket] \in {"connecting", "open"}
                w == sendRawAll(pending, Waiting, usable, {})
            IN /\ pending' = w.pending
               /\ reqs' = [r \in Reqs |->
                             IF r \in Waiting
                             THEN IF \E e \in w.results : e.req = r /\ e.result = "sent"
                                  THEN [reqs[r] EXCEPT !.status = "pending",
                                                       !.sock = Track(reqs[r], socket)]
                                  ELSE Done(reqs[r],
                                            CHOOSE e \in w.results : e.req = r)
                             ELSE reqs[r]]
               /\ connectPromise' = 0
               /\ clast' = [NoCLast EXCEPT !.step = "connected",
                              !.settled = Brief(w.results)]
       ELSE /\ clast' = [NoCLast EXCEPT !.step = "connected"]
            /\ UNCHANGED <<pending, reqs, connectPromise>>

cleanupPendingKeepsTable(p, err) == [pending |-> p, settled |-> Settled(p, err)]

\* cleanupPending(err) on table p: every entry rejected, the table cleared.
cleanupPending(p, err) == [pending |-> {}, settled |-> Settled(p, err)]

\* cleanupPending(err) and, if the connect attempt of socket id is awaited and
\* not settled, reject(err) of it.
RejectAll(id, err) ==
    LET waiting == IF connectPromise = id THEN Waiting ELSE {}
        c == cleanupPending(pending, err)
        gone == c.settled
               \cup {[req |-> r, seq |-> reqs[r].seq, result |-> err,
                       accepted |-> FALSE] : r \in waiting}
    IN /\ pending' = c.pending
       /\ reqs' = FreeSlots(gone)
       /\ connectPromise' = IF connectPromise = id THEN 0 ELSE connectPromise
       /\ clast' = [NoCLast EXCEPT !.step = err, !.settled = Brief(gone)]

\* The 'error' event of socket id (connecting or connected): the handler
\* destroys this.socket and cleans up; the socket that erred is destroyed.
socketError(id) ==
    /\ socks[id] \in {"connecting", "open"}
    /\ UNCHANGED <<mvars, lvars, rvars, buffer, checksumRequired, nextSeqNum, socket>>
    /\ socks' = Destroyed(Destroyed(socks, socket), id)
    /\ RejectAll(id, "SocketError")

\* The connect timer of the attempt on socket id fires before the attempt has
\* settled: this.socket is destroyed and the attempt rejected.
connectTimeout(id) ==
    /\ connectPromise = id
    /\ socks[id] = "connecting"
    /\ UNCHANGED <<mvars, lvars, rvars, buffer, checksumRequired, nextSeqNum, socket, pending>>
    /\ socks' = Destroyed(socks, socket)
    /\ LET gone == {[req |-> r, seq |-> reqs[r].seq, result |-> "ConnectionTimeout",
                      accepted |-> FALSE] : r \in Waiting}
       IN /\ reqs' = FreeSlots(gone)
          /\ clast' = [NoCLast EXCEPT !.step = "connectTimeout",
                         !.settled = Brief(gone)]
    /\ connectPromise' = 0

\* The 'close' event of socket id, destroyed by the client or closed by the
\* LMS: this.socket = null and cleanupPending.
socketClose(id) ==
    /\ socks[id] \in {"open", "destroyed"}
    /\ UNCHANGED <<mvars, lvars, rvars, buffer, checksumRequired, nextSeqNum, connectPromise>>
    /\ socks' = [socks EXCEPT ![id] = "closed"]
    /\ socket' = 0
    /\ LET c == cleanupPending(pending, "ConnectionClosed") IN
       /\ pending' = c.pending
       /\ reqs' = FreeSlots(c.settled)
       /\ clast' = [NoCLast EXCEPT !.step = "close", !.settled = Brief(c.settled)]

timedOutSocketKept == [socks |-> socks, socket |-> socket]

\* if (this.socket) { this.socket.destroy(); this.socket = null; }
timedOutSocket == [socks |-> Destroyed(socks, socket), socket |-> 0]

\* The timer of the entry of slot r fires.
requestTimeout(r) ==
    /\ reqs[r].status = "pending"
    /\ UNCHANGED <<mvars, lvars, rvars, buffer, checksumRequired, nextSeqNum, connectPromise>>
    /\ pending' = pendingDelete(pending, reqs[r].seq)
    /\ socks' = timedOutSocket.socks
    /\ socket' = timedOutSocket.socket
    /\ reqs' = [reqs EXCEPT ![r] = Done(reqs[r], Failed("RequestTimeout"))]
    /\ clast' = [NoCLast EXCEPT !.step = "timeout",
                   !.settled = {[seq |-> reqs[r].seq,
                                 result |-> "RequestTimeout"]}]

\* disconnect()
disconnect ==
    /\ socket # 0
    /\ UNCHANGED <<mvars, lvars, rvars, buffer, checksumRequired, nextSeqNum, connectPromise,
                   pending, reqs>>
    /\ socks' = Destroyed(socks, socket)
    /\ socket' = 0
    /\ clast' = [NoCLast EXCEPT !.step = "disconnect"]

\* Frames the LMS sends: for a digit d, a verified frame with the trailer
\* AY<d>AZ, one with a wrong checksum, a verified one whose text holds AY<e>AZ;
\* and a verified frame with no sequence field, a frame with no trailer at all.
FramesOf(d, e) ==
    {<<"x", AYTokens[d + 1], "CKOK", "CR">>,
     <<"x", AYTokens[d + 1], "CKBAD", "CR">>,
     <<AYTokens[e + 1], "x", AYTokens[d + 1], "CKOK", "CR">>,
     <<"x", "AZ", "CKOK", "CR">>,
     <<"x", "CR">>}

FrameChoices(digits) ==
    UNION {FramesOf(d, e) : d \in digits, e \in digits}

\* The digits of the frames: those of the pending entries and of the calls
\* on their way, and the cursor (a digit with no entry).
FrameDigits == {e.seq : e \in pending} \cup {nextSeqNum}

\* The 'data' event of socket id with the bytes of chunk: the buffer grows,
\* processBuffer cuts the messages off and handleMessage gets each.
onData(id, chunk) ==
    /\ socks[id] = "open"
    /\ UNCHANGED <<mvars, lvars, checksumRequired, nextSeqNum, connectPromise,
                   socket, socks>>
    /\ LET pb == processBuffer(buffer \o chunk, <<>>)
           h == handleAll(pending, pb.messages, checksumRequired,
                          [settled |-> {}, events |-> <<>>])
       IN /\ buffer' = pb.buffer
          /\ pending' = h.pending
          /\ reqs' = FreeSlots(h.settled)
          /\ clast' = [NoCLast EXCEPT !.step = "data",
                         !.settled = Brief(h.settled),
                         !.handled = pb.messages,
                         !.events = h.events]

\* The LMS sends a frame on socket id.
socketData(id) ==
    /\ UNCHANGED rvars
    /\ \E chunk \in FrameChoices(FrameDigits) : onData(id, chunk)

\* The bytes of an incomplete frame kept in this.buffer, at most.
MaxPartial == 2

\* The LMS sends a frame on socket id and a read delivers its first n bytes
\* only (the connection may end before the rest arrives).
socketPartial(id) ==
    /\ UNCHANGED rvars
    /\ \E f \in FrameChoices(FrameDigits) : \E n \in 1..(Len(f) - 1) :
          /\ Len(buffer) + n <= MaxPartial
          /\ onData(id, SubSeq(f, 1, n))

\* The socket delivers the next n bytes of the stream in one read.
socketRead(id, n) ==
    /\ n <= Len(stream)
    /\ onData(id, SubSeq(stream, 1, n))
    /\ stream' = SubSeq(stream, n + 1, Len(stream))
    /\ dispatched' = Append(dispatched, clast'.handled)
    /\ UNCHANGED whole

\* ------------------------------------------------------------ the event bus

ListenerIds == {"forward", "first", "second"}

\* The listener the constructor registers: it forwards to the dashboard
\* inside its own try/catch, so it never throws.
Forwarder == [id |-> "forward", throws |-> FALSE]

\* Callbacks the event loop has run so far.
Ran == emitted - Len(immediates)

Subscribed(id) == \E i \in DOMAIN listeners : listeners[i].id = id

RECURSIVE Invoked(_)
\* this.emit(name, payload): the listeners are called in subscription order;
\* an exception of one of them leaves emit, the listeners after it are not
\* called.
Invoked(ls) ==
    IF ls = <<>> THEN {}
    ELSE IF Head(ls).throws THEN {Head(ls).id}
    ELSE {Head(ls).id} \cup Invoked(Tail(ls))

\* EventHub.on('SIP2_TRANSACTION_LOGGED', listener), a new listener function.
on(id, throws) ==
    /\ UNCHANGED exceptHub
    /\ ~Subscribed(id)
    /\ listeners' = Append(listeners, [id |-> id, throws |-> throws])
    /\ received' = [received EXCEPT ![id] = <<>>]
    /\ since' = [since EXCEPT ![id] = Ran]
    /\ UNCHANGED <<immediates, emitted>>

\* EventHub.off('SIP2_TRANSACTION_LOGGED', listener)
off(id) ==
    /\ UNCHANGED exceptHub
    /\ Subscribed(id)
    /\ listeners' = SelectSeq(listeners, LAMBDA l : l.id # id)
    /\ UNCHANGED <<immediates, emitted, received, since>>

\* emitLog(payload): setImmediate(() => { try { this.emit(...) } catch ... }).
\* The payload of the n-th call is n.
emitLog ==
    /\ UNCHANGED exceptHub
    /\ emitted < MaxEvents
    /\ emitted' = emitted + 1
    /\ immediates' = Append(immediates, emitted + 1)
    /\ UNCHANGED <<listeners, received, since>>

\* The event loop runs the oldest setImmediate callback.
runImmediate ==
    /\ UNCHANGED exceptHub
    /\ immediates # <<>>
    /\ immediates' = Tail(immediates)
    /\ received' = [id \in ListenerIds |->
                      IF id \in Invoked(listeners)
                      THEN Append(received[id], Head(immediates))
                      ELSE received[id]]
    /\ UNCHANGED <<listeners, emitted, since>>

\* ------------------------------------------------------ the masking service

\* maskPayload, first test: password / PIN keys.
isPasswordKey(key) ==
    \/ includes(toLowerCase(key), "password")
    \/ includes(toLowerCase(key), "pin")
    \/ key = "CQ"
    \/ key = "CO"

\* maskPayload, second test: PII keys.
isPiiKey(key) ==
    \/ includes(toLowerCase(key), "patronidentifier")
    \/ includes(toLowerCase(key), "patronbarcode")
    \/ includes(toLowerCase(key), "itemidentifier")
    \/ includes(toLowerCase(key), "itembarcode")
    \/ includes(toLowerCase(key), "personalname")
    \/ key = "AA"
    \/ key = "AB"
    \/ key = "AE"

\* What maskPayload stores under `key` for the string `field`: "redacted" is
\* '********', "masked" is mask(value) = MASKED_<hex16>, "clear" the value
\* itself (mask returns a falsy value as it is), "throws" is mask without a
\* master key.
maskedForm(field, key) ==
    IF isPasswordKey(field.key) THEN "redacted"
    ELSE IF isPiiKey(field.key)
         THEN IF field.empty THEN "clear"
              ELSE IF key THEN "masked" ELSE "throws"
         ELSE "clear"

\* The string fields of a request or response object: the key, and what the
\* value under it is.
Field(part, key, holds) == [part |-> part, key |-> key, holds |-> holds]

RequestOf(fields) == {Field("request", f[1], f[2]) : f \in fields}

ResponseOf(fields) == {Field("response", f[1], f[2]) : f \in fields}

\* The operations of the manager's API: the request payload each hands to
\* execute and the record its parser returns.
Operations ==
    [PatronStatus |->
        RequestOf({<<"barcode", "patronBarcode">>, <<"language", "other">>})
        \cup ResponseOf({<<"patronBarcode", "patronBarcode">>,
                         <<"patronName", "patronName">>}),
     Checkout |->
        RequestOf({<<"patronBarcode", "patronBarcode">>,
                   <<"itemBarcode", "itemBarcode">>})
        \cup ResponseOf({<<"patronBarcode", "patronBarcode">>,
                         <<"itemBarcode", "itemBarcode">>,
                         <<"titleId", "other">>}),
     Checkin |->
        RequestOf({<<"itemBarcode", "itemBarcode">>})
        \cup ResponseOf({<<"itemBarcode", "itemBarcode">>, <<"titleId", "other">>}),
     ItemInformation |->
        RequestOf({<<"itemBarcode", "itemBarcode">>})
        \cup ResponseOf({<<"itemBarcode", "itemBarcode">>, <<"titleId", "other">>}),
     Renew |->
        RequestOf({<<"patronBarcode", "patronBarcode">>,
                   <<"itemBarcode", "itemBarcode">>})
        \cup ResponseOf({<<"patronBarcode", "patronBarcode">>,
                         <<"itemBarcode", "itemBarcode">>,
                         <<"titleId", "other">>}),
     FeePaid |->
        RequestOf({<<"patronBarcode", "patronBarcode">>, <<"feeId", "other">>,
                   <<"amount", "other">>})
        \cup ResponseOf({<<"patronBarcode", "patronBarcode">>}),
     PatronInformation |->
        RequestOf({<<"patronBarcode", "patronBarcode">>, <<"language", "other">>})
        \cup ResponseOf({<<"patronBarcode", "patronBarcode">>,
                         <<"patronName", "patronName">>}),
     Hold |->
        RequestOf({<<"patronBarcode", "patronBarcode">>,
                   <<"itemBarcode", "itemBarcode">>, <<"holdMode", "other">>})
        \cup ResponseOf({<<"patronBarcode", "patronBarcode">>,
                         <<"itemBarcode", "itemBarcode">>}),
     RenewAll |->
        RequestOf({<<"patronBarcode", "patronBarcode">>})
        \cup ResponseOf({<<"patronBarcode", "patronBarcode">>}),
     EndSession |->
        RequestOf({<<"patronBarcode", "patronBarcode">>})
        \cup ResponseOf({<<"patronBarcode", "patronBarcode">>}),
     SCStatus |-> {},
     BlockPatron |->
        RequestOf({<<"patronBarcode", "patronBarcode">>,
                   <<"blockedCardMessage", "other">>}),
     ItemStatusUpdate |->
        RequestOf({<<"itemBarcode", "itemBarcode">>, <<"securityMarker", "other">>})
        \cup ResponseOf({<<"itemBarcode", "itemBarcode">>}),
     PatronEnable |->
        RequestOf({<<"patronBarcode", "patronBarcode">>})
        \cup ResponseOf({<<"patronBarcode", "patronBarcode">>,
                         <<"patronName", "patronName">>})]

Actions == DOMAIN Operations

NoPayload == [action |-> "none", fields |-> {}]

NoEvent == [status |-> "none", fields |-> {}]

\* The payloads of operation `action`: any of its string values may be ''.
PayloadsOf(action) ==
    {[action |-> action,
      fields |-> {[part |-> f.part, key |-> f.key, holds |-> f.holds,
                   empty |-> f \in blank] : f \in Operations[action]}] :
        blank \in SUBSET Operations[action]}

\* _executeInner on the success path: the payload of `action` is built.
buildPayload(action) ==
    /\ UNCHANGED exceptMask
    /\ payload = NoPayload
    /\ payload' \in PayloadsOf(action)
    /\ UNCHANGED <<masterKey, event>>

\* MaskingService.maskPayload(payload): every field is replaced by its masked
\* form, or mask throws.
maskPayload ==
    /\ UNCHANGED exceptMask
    /\ payload # NoPayload
    /\ event = NoEvent
    /\ LET forms == {[part |-> f.part, key |-> f.key, holds |-> f.holds,
                       empty |-> f.empty, form |-> maskedForm(f, masterKey)] :
                        f \in payload.fields}
       IN event' = IF \E f \in forms : f.form = "throws"
                   THEN [status |-> "threw", fields |-> {}]
                   ELSE [status |-> "masked", fields |-> forms]
    /\ UNCHANGED <<masterKey, payload>>

\* ------------------------------------------------------ request formatters
\* A JavaScript string is the sequence of its UTF-16 code units.

\* The ASCII characters from ' ' (32) to '_' (95).
Ascii ==
    " !\"#$%&'()*+,-./0123456789:;<=>?@ABCDEFGHIJKLMNOPQRSTUVWXYZ[\\]^_"

\* The ASCII characters from 'a' (97) to '~' (126).
AsciiLower == "abcdefghijklmnopqrstuvwxyz{|}~"

\* str.charCodeAt(0) of a one-character string.
charCodeAt(c) ==
    IF \E i \in 1..Len(Ascii) : SubSeq(Ascii, i, i) = c
    THEN 31 + CHOOSE i \in 1..Len(Ascii) : SubSeq(Ascii, i, i) = c
    ELSE 96 + CHOOSE i \in 1..Len(AsciiLower) : SubSeq(AsciiLower, i, i) = c

\* The code units of a string literal of the source.
Lit(str) == [i \in 1..Len(str) |-> charCodeAt(SubSeq(str, i, i))]

CR == 13

Pipe == 124

\* The characters callers put in their strings: 'A', '|', '\r' and U+00E9.
Chars == {65, Pipe, CR, 233}

\* The strings of at most MaxField characters.
Strings == UNION {[1..n -> Chars] : n \in 0..MaxField}

\* value.replace(/[|\r\n\x00-\x1F]/g, '')
sanitizeSipField(value) == SelectSeq(value, LAMBDA c : c > 31 /\ c # Pipe)

\* str.substring(0, n)
substring(str, n) == SubSeq(str, 1, IF Len(str) < n THEN Len(str) ELSE n)

\* str.padEnd(n): spaces appended up to length n.
padEnd(str, n) == str \o [i \in 1..(IF Len(str) < n THEN n - Len(str) ELSE 0) |-> 32]

RECURSIVE sum(_)
sum(message) ==
    IF message = <<>> THEN 0 ELSE Head(message) + sum(Tail(message))

\* One uppercase hexadecimal digit.
hexDigit(d) == IF d < 10 THEN 48 + d ELSE 55 + d

\* (-sum & 0xFFFF).toString(16).toUpperCase().padStart(4, '0')
calculateChecksum(message) ==
    LET checksum == (65536 - (sum(message) % 65536)) % 65536
    IN <<hexDigit(checksum \div 4096), hexDigit((checksum \div 256) % 16),
         hexDigit((checksum \div 16) % 16), hexDigit(checksum % 16)>>

\* `${message}AY${seqStr}AZ${checksum}\r`
appendChecksum(message, seqNum) ==
    LET partialMsg == message \o Lit("AY") \o <<48 + seqNum>> \o Lit("AZ")
    IN partialMsg \o calculateChecksum(partialMsg) \o <<CR>>

\* [0-9A-Fa-f]
isHexDigit(c) == c \in (48..57) \cup (65..70) \cup (97..102)

\* toUpperCase() of a hexadecimal digit.
toUpperHex(c) == IF c \in 97..102 THEN c - 32 ELSE c

\* checksum.ts verifyChecksum on the characters of a message: the message
\* ends with AZ, four hexadecimal digits and an optional '\r', and the digits
\* are the checksum of everything up to and including 'AZ'.
verifyChecksumOf(message) ==
    LET body == IF message # <<>> /\ message[Len(message)] = CR
                THEN SubSeq(message, 1, Len(message) - 1)
                ELSE message
        n == Len(body)
    IN /\ n >= 6
       /\ SubSeq(body, n - 5, n - 4) = Lit("AZ")
       /\ \A i \in (n - 3)..n : isHexDigit(body[i])
       /\ calculateChecksum(SubSeq(body, 1, n - 4))
            = [i \in 1..4 |-> toUpperHex(body[n - 4 + i])]

\* unidecode of one character: ASCII is kept, U+00E9 becomes 'e'.
unidecodeChar(c) == IF c < 128 THEN <<c>> ELSE Lit("e")

RECURSIVE unidecode(_)
unidecode(str) ==
    IF str = <<>> THEN <<>> ELSE unidecodeChar(Head(str)) \o unidecode(Tail(str))

\* getSipTimestamp() at one instant: YYYYMMDD, four spaces, HHMMSS.
Timestamp == Lit("20260101    120000")

\* The institution id of the branch's configuration.
InstitutionId == Lit("GigaFlair")

\* sip-formatter.ts formatPatronStatusRequest
formatPatronStatusRequest(barcode, seqNum, language) ==
    appendChecksum(Lit("23") \o substring(language, 3) \o Timestamp
                   \o Lit("AO") \o sanitizeSipField(InstitutionId)
                   \o Lit("|AA") \o sanitizeSipField(barcode) \o Lit("|AC|"),
                   seqNum)

\* sip-formatter.ts formatCheckoutRequest
formatCheckoutRequest(patronBarcode, itemBarcode, seqNum, patronPin) ==
    appendChecksum(Lit("11YN") \o Timestamp \o padEnd(<<>>, 18)
                   \o Lit("AO") \o sanitizeSipField(InstitutionId)
                   \o Lit("|AA") \o sanitizeSipField(patronBarcode)
                   \o Lit("|AB") \o sanitizeSipField(itemBarcode) \o Lit("|AC|")
                   \o (IF patronPin # <<>>
                       THEN Lit("AD") \o sanitizeSipField(patronPin) \o Lit("|")
                       ELSE <<>>),
                   seqNum)

\* sip-formatter.ts formatFeePaidRequest, its currencyType left at 'USD'
formatFeePaidRequest(patronBarcode, feeId, amount, seqNum, feeType, paymentType) ==
    LET safeCurrency == padEnd(substring(sanitizeSipField(Lit("USD")), 3), 3)
    IN appendChecksum(Lit("37") \o Timestamp
                      \o substring(padEnd(feeType, 2), 2)
                      \o substring(padEnd(paymentType, 2), 2)
                      \o safeCurrency
                      \o Lit("AO") \o sanitizeSipField(InstitutionId)
                      \o Lit("|AA") \o sanitizeSipField(patronBarcode)
                      \o Lit("|BK") \o sanitizeSipField(feeId)
                      \o Lit("|BV") \o sanitizeSipField(amount)
                      \o Lit("|BH") \o safeCurrency \o Lit("|"),
                      seqNum)

\* sip-formatter.ts formatBlockPatronRequest
formatBlockPatronRequest(patronBarcode, cardRetained, blockedCardMessage, seqNum) ==
    appendChecksum(Lit("01") \o (IF cardRetained THEN Lit("Y") ELSE Lit("N"))
                   \o Timestamp
                   \o Lit("AO") \o sanitizeSipField(InstitutionId)
                   \o Lit("|AA") \o sanitizeSipField(patronBarcode)
                   \o Lit("|AC|AL") \o sanitizeSipField(blockedCardMessage)
                   \o Lit("|"),
                   seqNum)

\* sip-formatter.ts formatSCStatusRequest
formatSCStatusRequest(seqNum) == appendChecksum(Lit("9900802.00"), seqNum)

\* The sequence numbers the frames are built with: the first and the last.
FrameSeqNums == {0, SeqNumbers - 1}

NoCall == [command |-> "none"]

NoFrame == <<>>

\* The calls SipClient makes on the formatters, with the strings its own
\* callers hand it.
Calls ==
    {[command |-> "23", seqNum |-> n, barcode |-> b, language |-> l] :
        n \in FrameSeqNums, b \in Strings, l \in Strings}
    \cup {[command |-> "11", seqNum |-> n, patronBarcode |-> b,
           itemBarcode |-> Lit("I1"), patronPin |-> pin] :
            n \in FrameSeqNums, b \in Strings, pin \in Strings}
    \cup {[command |-> "37", seqNum |-> n, patronBarcode |-> b,
           feeId |-> Lit("F1"), amount |-> Lit("1.00"), feeType |-> t,
           paymentType |-> Lit("00")] :
            n \in FrameSeqNums, b \in Strings, t \in Strings}
    \cup {[command |-> "01", seqNum |-> n, patronBarcode |-> b,
           cardRetained |-> FALSE, blockedCardMessage |-> m] :
            n \in FrameSeqNums, b \in Strings, m \in Strings}
    \cup {[command |-> "99", seqNum |-> n] : n \in FrameSeqNums}

\* The frame of a request.
Format(c) ==
    CASE c.command = "23" ->
            formatPatronStatusRequest(c.barcode, c.seqNum, c.language)
      [] c.command = "11" ->
            formatCheckoutRequest(c.patronBarcode, c.itemBarcode, c.seqNum,
                                  c.patronPin)
      [] c.command = "37" ->
            formatFeePaidRequest(c.patronBarcode, c.feeId, c.amount, c.seqNum,
                                 c.feeType, c.paymentType)
      [] c.command = "01" ->
            formatBlockPatronRequest(c.patronBarcode, c.cardRetained,
                                     c.blockedCardMessage, c.seqNum)
      [] c.command = "99" -> formatSCStatusRequest(c.seqNum)

\* The '|' delimiters of a command's frame: one per variable field.
FieldCount(c) ==
    CASE c.command = "23" -> 3
      [] c.command = "11" -> IF c.patronPin # <<>> THEN 5 ELSE 4
      [] c.command = "37" -> 5
      [] c.command = "01" -> 4
      [] c.command = "99" -> 0

\* A command method of SipClient builds its request with the formatter.
format ==
    /\ UNCHANGED exceptFormat
    /\ request # NoCall
    /\ frame = NoFrame
    /\ frame' = Format(request)
    /\ UNCHANGED <<request, written>>

\* sendRaw and blockPatron at the write: unidecode(raw), then
\* socket.write(Buffer.from(normalized, 'ascii')).
socketWrite ==
    /\ UNCHANGED exceptFormat
    /\ frame # NoFrame
    /\ written = NoFrame
    /\ written' = [i \in 1..Len(unidecode(frame)) |-> unidecode(frame)[i] % 256]
    /\ UNCHANGED <<request, frame>>

\* ----------------------------------------------------------- specifications

\* ------------------------------------------------------------------ parser

\* [A-Z]
isUpperCase(c) == c \in 65..90

\* \d
isDigit(c) == c \in 48..57

\* str.startsWith(prefix)
startsWith(str, prefix) ==
    Len(str) >= Len(prefix) /\ SubSeq(str, 1, Len(prefix)) = prefix

\* raw.split('|')
RECURSIVE split(_)
split(str) ==
    IF \A i \in 1..Len(str) : str[i] # Pipe THEN <<str>>
    ELSE LET k == CHOOSE i \in 1..Len(str) :
                      str[i] = Pipe /\ \A j \in 1..(i - 1) : str[j] # Pipe
         IN <<SubSeq(str, 1, k - 1)>> \o split(SubSeq(str, k + 1, Len(str)))

\* fixedFieldLengths[msgType] ?? 15
fixedFieldLengths(msgType) ==
    CASE msgType = Lit("24") -> 37
      [] msgType = Lit("64") -> 63
      [] msgType = Lit("98") -> 36
      [] msgType = Lit("10") -> 24
      [] msgType = Lit("12") -> 24
      [] msgType = Lit("30") -> 21
      [] msgType = Lit("16") -> 24
      [] msgType = Lit("36") -> 21
      [] msgType = Lit("66") -> 26
      [] msgType = Lit("26") -> 37
      [] msgType = Lit("20") -> 21
      [] msgType = Lit("94") -> 3
      [] msgType = Lit("93") -> 4
      [] msgType = Lit("18") -> 37
      [] OTHER -> 15

\* [A-Z]{2} at the (1-based) position i of part.
TagAt(part, i) ==
    i + 1 <= Len(part) /\ isUpperCase(part[i]) /\ isUpperCase(part[i + 1])

\* The successive matches of /([A-Z]{2})([^|]*?)(?=[A-Z]{2}|$)/g in part, the
\* search starting at lastIndex: the leftmost tag, and the shortest value
\* that ends before two capitals or at the end of the string.
RECURSIVE tagPattern(_, _)
tagPattern(part, lastIndex) ==
    IF \A i \in (lastIndex + 1)..Len(part) : ~TagAt(part, i) THEN <<>>
    ELSE LET i == CHOOSE k \in (lastIndex + 1)..Len(part) :
                      TagAt(part, k) /\ \A l \in (lastIndex + 1)..(k - 1) : ~TagAt(part, l)
             end == CHOOSE k \in (i + 2)..(Len(part) + 1) :
                      /\ k = Len(part) + 1 \/ TagAt(part, k)
                      /\ \A l \in (i + 2)..(k - 1) : ~TagAt(part, l)
         IN <<[index |-> i - 1, tag |-> SubSeq(part, i, i + 1),
               value |-> SubSeq(part, i + 2, end - 1)]>>
            \o tagPattern(part, end - 1)

\* The tags the loop over the segments finds, in order: in the first segment
\* the matches at or after the threshold, in the others the segment's first
\* two characters if they are capitals.
RECURSIVE LaterSegments(_)
LaterSegments(parts) ==
    IF parts = <<>> THEN <<>>
    ELSE LET part == Head(parts) IN
         (IF TagAt(part, 1)
          THEN <<[tag |-> SubSeq(part, 1, 2), value |-> SubSeq(part, 3, Len(part))]>>
          ELSE <<>>) \o LaterSegments(Tail(parts))

TagsFound(raw) ==
    LET parts == split(raw)
        threshold == fixedFieldLengths(SubSeq(parts[1], 1, 2))
        first == SelectSeq(tagPattern(parts[1], 0), LAMBDA m : m.index >= threshold)
    IN [i \in 1..Len(first) |-> [tag |-> first[i].tag, value |-> first[i].value]]
       \o LaterSegments(Tail(parts))

\* raw.match(/AY(\d)AZ/): the digit of the first match, or none.
ayMatch(raw) ==
    LET at(i) == /\ i + 4 <= Len(raw)
                 /\ SubSeq(raw, i, i + 1) = Lit("AY") /\ isDigit(raw[i + 2])
                 /\ SubSeq(raw, i + 3, i + 4) = Lit("AZ")
    IN IF \E i \in 1..Len(raw) : at(i)
       THEN {<<raw[2 + CHOOSE i \in 1..Len(raw) : at(i) /\ \A j \in 1..(i - 1) : ~at(j)]>>}
       ELSE {}

\* fields[tag] = value for every tag found, in order: a later assignment
\* replaces an earlier one.
assignEach(found) ==
    [tag \in {found[i].tag : i \in DOMAIN found} |->
        found[CHOOSE i \in DOMAIN found :
                 found[i].tag = tag /\ \A j \in DOMAIN found : found[j].tag = tag => j <= i].value]

\* parseFields(raw)
parseFields(raw) ==
    LET fields == assignEach(TagsFound(raw))
        ay == ayMatch(raw)
    IN [tag \in DOMAIN fields \cup {Lit("AY") : x \in ay} |->
          IF tag = Lit("AY") /\ ay # {} THEN CHOOSE d \in ay : TRUE ELSE fields[tag]]

\* parseFieldsMulti(raw): fields[tag].push(value) for every tag found.
parseFieldsMulti(raw) ==
    LET found == TagsFound(raw) IN
    [tag \in {found[i].tag : i \in DOMAIN found} |->
        LET hits == SelectSeq(found, LAMBDA m : m.tag = tag)
        IN [i \in 1..Len(hits) |-> hits[i].value]]

\* fields[tag] || fallback
orElse(fields, tag, fallback) ==
    IF tag \in DOMAIN fields /\ fields[tag] # <<>> THEN fields[tag] ELSE fallback

\* fields[tag]: a string or undefined ({}).
optional(fields, tag) == IF tag \in DOMAIN fields THEN {fields[tag]} ELSE {}

\* The thrown Error of a response parser given another message.
Unexpected == [error |-> "Expected"]

\* sip-parser.ts parseCheckoutResponse
parseCheckoutResponse(raw) ==
    IF ~startsWith(raw, Lit("12")) /\ ~startsWith(raw, Lit("30")) THEN Unexpected
    ELSE LET fields == parseFields(raw)
             multiFields == parseFieldsMulti(raw)
         IN [institutionId |-> orElse(fields, Lit("AO"), <<>>),
             patronBarcode |-> orElse(fields, Lit("AA"), <<>>),
             screenMessage |-> optional(fields, Lit("AF")),
             screenMessages |-> orElse(multiFields, Lit("AF"), <<>>)]

\* sip-parser.ts parseHoldResponse
parseHoldResponse(raw) ==
    IF ~startsWith(raw, Lit("16")) THEN Unexpected
    ELSE LET fields == parseFields(raw)
             multiFields == parseFieldsMulti(raw)
         IN [institutionId |-> orElse(fields, Lit("AO"), <<>>),
             patronBarcode |-> orElse(fields, Lit("AA"), <<>>),
             screenMessage |-> optional(fields, Lit("AF")),
             screenMessages |-> orElse(multiFields, Lit("AF"), <<>>)]

\* sip-parser.ts parsePatronInformationResponse
parsePatronInformationResponse(raw) ==
    IF ~startsWith(raw, Lit("64")) THEN Unexpected
    ELSE LET fields == parseFields(raw)
             multiFields == parseFieldsMulti(raw)
         IN [patronBarcode |-> orElse(fields, Lit("AA"), <<>>),
             screenMessage |-> optional(fields, Lit("AF")),
             screenMessages |-> orElse(multiFields, Lit("AF"), <<>>)]

\* sip-parser.ts parseItemInformationResponse
parseItemInformationResponse(raw) ==
    IF ~startsWith(raw, Lit("18")) THEN Unexpected
    ELSE LET fields == parseFields(raw)
         IN [itemBarcode |-> orElse(fields, Lit("AB"), <<>>),
             titleId |-> orElse(fields, Lit("AJ"), Lit("Unknown Title"))]

\* The fixed header of each response, as the parsers document and slice it.
\* 12{ok}{renewalOk}{magneticMedia}{desensitize}{transactionDate}
\* 16{ok:1}{available:1}{transactionDate:18}
\* 18{circStatus}{security}{feeType}{transactionDate}
\* 64{patronStatus:14}{language:3}{transactionDate:18}{six counts of 4}
FixedHeader(msgType) ==
    CASE msgType = "12" -> Lit("121YNN") \o Timestamp
      [] msgType = "16" -> Lit("161Y") \o Timestamp
      [] msgType = "18" -> Lit("18010100") \o Timestamp
      [] msgType = "64" -> Lit("64              001") \o Timestamp
                           \o Lit("000200010003000000000000")

ResponseTypes == {"12", "16", "18", "64"}

\* The variable fields an LMS puts in a response: institution id, patron
\* identifier and screen messages, each followed by '|'.
FieldTags == {Lit("AO"), Lit("AA"), Lit("AF")}

FieldValues == {Lit("one"), Lit("two")}

MaxFields == 3

FieldLists ==
    UNION {[1..n -> [tag : FieldTags, value : FieldValues]] : n \in 1..MaxFields}

Responses == [msgType : ResponseTypes, fields : FieldLists]

RECURSIVE Delimited(_)
Delimited(fs) ==
    IF fs = <<>> THEN <<>>
    ELSE Head(fs).tag \o Head(fs).value \o <<Pipe>> \o Delimited(Tail(fs))

\* The frame of a response on the wire, sequence number 1.
ResponseFrame(r) == appendChecksum(FixedHeader(r.msgType) \o Delimited(r.fields), 1)

NoResponse == [msgType |-> "none", fields |-> <<>>]

NoParsed == [status |-> "none"]

ParseIdle ==
    /\ answer = NoResponse
    /\ rawFrame = <<>>
    /\ parsed = NoParsed

\* The response handler of the command parses the frame sendRaw resolved with.
parse ==
    /\ UNCHANGED <<mvars, cvars, rvars, hvars, kvars, fvars, bvars, tvars>>
    /\ parsed = NoParsed
    /\ parsed' = [status |-> "parsed",
                  fields |-> parseFields(rawFrame),
                  result |-> CASE answer.msgType = "12" -> parseCheckoutResponse(rawFrame)
                               [] answer.msgType = "16" -> parseHoldResponse(rawFrame)
                               [] answer.msgType = "18" -> parseItemInformationResponse(rawFrame)
                               [] answer.msgType = "64" -> parsePatronInformationResponse(rawFrame)]
    /\ UNCHANGED <<answer, rawFrame>>

\* ------------------------------------------- maskPayload on JSON values
\* A JSON value is a string, a number, an array or an object.

String(str) == [t |-> "string", v |-> str]

Number(n) == [t |-> "number", v |-> n]

Array(items) == [t |-> "array", v |-> items]

Object(entries) == [t |-> "object", v |-> entries]

\* The error MaskingService.mask throws.
MaskThrew == [t |-> "threw", v |-> "GIGAFLAIR_MASTER_KEY is not set"]

\* !data, !payload
falsy(value) ==
    \/ value.t = "string" /\ value.v = ""
    \/ value.t = "number" /\ value.v = 0

\* MaskingService.mask(data): the HMAC of the string under the master key,
\* the same for the same string and different for different ones.
mask(data, key) ==
    IF data = "" THEN String(data)
    ELSE IF ~key THEN MaskThrew
    ELSE String("MASKED_" \o data)

\* A value some part of which is the thrown error.
RECURSIVE Throws(_)
Throws(value) ==
    \/ value.t = "threw"
    \/ value.t \in {"array", "object"} /\ \E i \in DOMAIN value.v : Throws(value.v[i])

\* MaskingService.maskPayload(payload), the recursion without the exception.
RECURSIVE maskPayloadOf(_, _)
maskPayloadOf(value, key) ==
    IF falsy(value) THEN value
    ELSE IF value.t = "array"
    THEN Array([i \in DOMAIN value.v |-> maskPayloadOf(value.v[i], key)])
    ELSE IF value.t = "object"
    THEN Object([k \in DOMAIN value.v |->
            IF isPasswordKey(k)
            THEN IF value.v[k].t = "string" THEN String("********") ELSE value.v[k]
            ELSE IF isPiiKey(k)
            THEN IF value.v[k].t = "string" THEN mask(value.v[k].v, key) ELSE value.v[k]
            ELSE maskPayloadOf(value.v[k], key)])
    ELSE value

\* MaskingService.maskPayload(payload): the masked copy, or the error of mask.
maskPayloadResult(value, key) ==
    LET masked == maskPayloadOf(value, key)
    IN IF Throws(masked) THEN MaskThrew ELSE masked

\* Keys of the three categories: password, PII and neither.
PayloadKeys == {"pin", "patronBarcode", "title"}

Atoms == {String(""), String("P1"), String("P2"), Number(7)}

\* Objects of one or two keys and arrays of one item, over the given values.
Composites(values) ==
    {Object(f) : f \in UNION {[ks -> values] :
                     ks \in {s \in SUBSET PayloadKeys : Cardinality(s) = 1}}}
    \cup {Array(<<x>>) : x \in values}

PairObjects(values) ==
    {Object(f) : f \in UNION {[ks -> values] :
                     ks \in {s \in SUBSET PayloadKeys : Cardinality(s) = 2}}}

Nested == Atoms \cup Composites(Atoms) \cup PairObjects(Atoms)

\* The payloads handed to maskPayload: values of depth at most two.
Payloads == Nested \cup Composites(Nested)

NoTwin == <<>>

TwinIdle ==
    /\ twin = NoTwin
    /\ logged = NoTwin

\* maskPayload is called with one payload and with the other.
maskPayloadTwice ==
    /\ UNCHANGED <<mvars, cvars, rvars, hvars, kvars, fvars, bvars, pvars>>
    /\ logged = NoTwin
    /\ logged' = <<maskPayloadResult(twin[1], masterKey),
                   maskPayloadResult(twin[2], masterKey)>>
    /\ UNCHANGED twin

\* The event bus after the module is loaded.
HubNew ==
    /\ listeners = <<Forwarder>>
    /\ immediates = <<>>
    /\ emitted = 0
    /\ received = [id \in ListenerIds |-> <<>>]
    /\ since = [id \in ListenerIds |-> 0]

MaskIdle ==
    /\ masterKey = TRUE
    /\ payload = NoPayload
    /\ event = NoEvent

FormatIdle ==
    /\ request = NoCall
    /\ frame = NoFrame
    /\ written = NoFrame

BlockIdle == returned = {}

LibraryIdle ==
    HubNew /\ MaskIdle /\ FormatIdle /\ BlockIdle /\ ParseIdle /\ TwinIdle

\* A SipClient after construction.
ClientNew(required) ==
    /\ socket = 0
    /\ socks = [id \in SockIds |-> "unused"]
    /\ connectPromise = 0
    /\ pending = {}
    /\ nextSeqNum = 0
    /\ buffer = <<>>
    /\ checksumRequired = required
    /\ reqs = [r \in Reqs |-> IdleReq]
    /\ clast = NoCLast

ReassemblerIdle ==
    /\ stream = <<>>
    /\ whole = <<>>
    /\ dispatched = <<>>

Init ==
    /\ ClientNew(TRUE)
    /\ ReassemblerIdle
    /\ LibraryIdle
    /\ configs \in [BranchIds -> [login : BOOLEAN]]
    /\ breakers = [b \in DOMAIN configs |-> NewBreaker]
    /\ clients = {}
    /\ queues = [b \in BranchIds |-> NoQueue]
    /\ ops = [o \in Ops |-> IdleOp]
    /\ reinit = NoReinit
    /\ now = StartTime
    /\ hist = [b \in DOMAIN configs |-> [consec |-> 0, trips |-> 0]]
    /\ before = [o \in Ops |-> {}]
    /\ last = NoLast

\* The manager as the HTTP layer and the configuration service drive it.
Next ==
    \/ \E o \in Ops, b \in BranchIds : execute(o, b)
    \/ \E o \in Ops : StartOp(o)
    \/ \E o \in Ops, ok \in BOOLEAN : LoginDone(o, ok)
    \/ \E o \in Ops, ok \in BOOLEAN : ActionDone(o, ok)
    \/ \E o \in Ops : maskPayloadThrew(o)
    \/ \E o \in Ops : _executeInnerCatch(o)
    \/ \E b \in BranchIds : getCircuitState(b)
    \/ shutdown
    \/ reinitialize
    \/ \E cfg \in ConfigChoices : reinitializeDrained(cfg)
    \/ Tick

Spec == Init /\ [][Next]_vars

\* Every chained callback is run, every login and every request ends (by an
\* answer, a socket error or its timer), a catch block entered is run to its
\* end; callers, shutdown, reinitialize and the clock are under no obligation.
\* A callback that is ready stays in the event loop's queue while another
\* call's catch block runs, hence the strong fairness of the first three.
Fairness ==
    \A o \in Ops :
        /\ SF_vars(StartOp(o))
        /\ SF_vars(\E ok \in BOOLEAN : LoginDone(o, ok))
        /\ SF_vars(\E ok \in BOOLEAN : ActionDone(o, ok))
        /\ WF_vars(_executeInnerCatch(o))

SpecFair == Spec /\ Fairness

\* The breaker state machine as the unit tests drive it: one caller at a
\* time, the test-only entry points, the status query and the clock.
NextBreaker ==
    \/ \E b \in BranchIds : execute(1, b)
    \/ StartOp(1)
    \/ \E ok \in BOOLEAN : LoginDone(1, ok)
    \/ \E ok \in BOOLEAN : ActionDone(1, ok)
    \/ \E b \in BranchIds : getCircuitState(b)
    \/ \E b \in BranchIds : _simulateFailure(b)
    \/ \E b \in BranchIds : _simulateSuccess(b)
    \/ \E b \in BranchIds : _expireBackoff(b)
    \/ Tick

SpecBreaker == Init /\ [][NextBreaker]_vars

\* A deployment with two branches.
Branches == {"main", "east"}

InitBranches ==
    /\ ClientNew(TRUE)
    /\ ReassemblerIdle
    /\ LibraryIdle
    /\ configs \in [Branches -> [login : BOOLEAN]]
    /\ breakers = [b \in Branches |-> NewBreaker]
    /\ clients = {}
    /\ queues = [b \in Branches |-> NoQueue]
    /\ ops = [o \in Ops |-> IdleOp]
    /\ reinit = NoReinit
    /\ now = StartTime
    /\ hist = [b \in Branches |-> [consec |-> 0, trips |-> 0]]
    /\ before = [o \in Ops |-> {}]
    /\ last = NoLast

\* The operations of the manager, called for either branch, and the clock.
NextBranches ==
    \/ \E o \in Ops, b \in Branches : execute(o, b)
    \/ \E o \in Ops : StartOp(o)
    \/ \E o \in Ops, ok \in BOOLEAN : LoginDone(o, ok)
    \/ \E o \in Ops, ok \in BOOLEAN : ActionDone(o, ok)
    \/ \E o \in Ops : maskPayloadThrew(o)
    \/ \E o \in Ops : _executeInnerCatch(o)
    \/ Tick

SpecBranches == InitBranches /\ [][NextBranches]_vars

\* A manager that nothing calls, its branches with or without credentials.
ManagerIdleWith(login) ==
    /\ configs = [b \in BranchIds |-> [login |-> login]]
    /\ breakers = [b \in BranchIds |-> NewBreaker]
    /\ clients = {}
    /\ queues = [b \in BranchIds |-> NoQueue]
    /\ ops = [o \in Ops |-> IdleOp]
    /\ reinit = NoReinit
    /\ now = StartTime
    /\ hist = [b \in BranchIds |-> [consec |-> 0, trips |-> 0]]
    /\ before = [o \in Ops |-> {}]
    /\ last = NoLast

ManagerIdle == ManagerIdleWith(FALSE)

InitClient ==
    /\ ManagerIdle
    /\ LibraryIdle
    /\ ReassemblerIdle
    /\ \E required \in BOOLEAN : ClientNew(required)

\* One SipClient as its callers, its timers, its sockets and the LMS drive it.
NextClient ==
    \/ \E r \in Reqs, fromAllocator \in BOOLEAN : sendRaw(r, fromAllocator, "none")
    \/ \E id \in SockIds : connected(id)
    \/ \E id \in SockIds : socketError(id)
    \/ \E id \in SockIds : connectTimeout(id)
    \/ \E id \in SockIds : socketClose(id)
    \/ \E r \in Reqs : requestTimeout(r)
    \/ disconnect
    \/ \E id \in SockIds : socketData(id)

SpecClient == InitClient /\ [][NextClient]_vars

\* One SipClient whose connections may end in the middle of a frame.
NextReconnect ==
    \/ \E r \in Reqs, fromAllocator \in BOOLEAN : sendRaw(r, fromAllocator, "none")
    \/ \E id \in SockIds : connected(id)
    \/ \E id \in SockIds : socketError(id)
    \/ \E id \in SockIds : connectTimeout(id)
    \/ \E id \in SockIds : socketClose(id)
    \/ \E r \in Reqs : requestTimeout(r)
    \/ disconnect
    \/ \E id \in SockIds : socketData(id)
    \/ \E id \in SockIds : socketPartial(id)

SpecReconnect == InitClient /\ [][NextReconnect]_vars

\* The timer sendRaw arms with an entry fires after timeoutMs unless it was
\* cleared.
TimersFire == \A r \in Reqs : WF_vars(requestTimeout(r))

SpecClientFair == SpecClient /\ TimersFire

\* The sequence allocator on every pending table a client can hold: a client
\* with a connected socket, any cursor and entries of earlier calls (req 0)
\* under any set of numbers, and one further call.
InitSeq ==
    /\ ManagerIdle
    /\ LibraryIdle
    /\ ReassemblerIdle
    /\ socket = 1
    /\ socks = [id \in SockIds |-> IF id = 1 THEN "open" ELSE "unused"]
    /\ connectPromise = 0
    /\ \E held \in SUBSET (0..(SeqNumbers - 1)) :
          pending = {[seq |-> n, req |-> 0] : n \in held}
    /\ nextSeqNum \in 0..(SeqNumbers - 1)
    /\ buffer = <<>>
    /\ checksumRequired = TRUE
    /\ reqs = [r \in Reqs |-> IdleReq]
    /\ clast = NoCLast

NextSeq ==
    \E fromAllocator \in BOOLEAN : sendRaw(1, fromAllocator, "none")

SpecSeq == InitSeq /\ [][NextSeq]_vars

\* The client of a branch with credentials, from its creation by getClient
\* until the manager drops it. The manager runs one call at a time on it.
LoginCalls == {r \in Reqs : reqs[r].kind = "login"}

Outstanding == \E r \in Reqs : reqs[r].status \in {"connect", "pending"}

\* performLogin has returned: the client is in the clients map.
LoggedIn == \E r \in Reqs : reqs[r].outcome = "941"

FailedLogins ==
    {r \in LoginCalls : reqs[r].status = "done" /\ reqs[r].outcome # "941"}

\* The calls of operations made on the client so far.
CommandCalls == {r \in Reqs : reqs[r].status # "idle"} \ LoginCalls

\* performLogin: one turn of its loop, a Login frame with sequence number 0.
\* The socket is null: on a new client, and after the catch block of the turn
\* before, whose wait of 500 ms and more lets the close event of the socket
\* it destroyed come first.
performLogin(r) ==
    /\ ~Outstanding
    /\ ~LoggedIn
    /\ Cardinality(LoginCalls) <= LoginRetries
    /\ socket = 0
    /\ \A id \in SockIds : socks[id] # "destroyed"
    /\ sendRaw(r, FALSE, "login")

\* client.disconnect() after a failed attempt: in the catch block of
\* performLogin or, after the last, in that of getClient.
performLoginCatch ==
    /\ ~Outstanding
    /\ ~LoggedIn
    /\ FailedLogins # {}
    /\ disconnect

\* An operation on the cached client (patronStatus, as every other but
\* blockPatron): the breaker has not opened, which drops the client.
patronStatus(r) ==
    /\ LoggedIn
    /\ ~Outstanding
    /\ Cardinality(CommandCalls) < FAILURE_THRESHOLD
    /\ sendRaw(r, TRUE, "command")

\* The LMS answers on socket id: any frame, or one that starts with 941.
Frames941(digits) == {<<"941", AYTokens[d + 1], "CKOK", "CR">> : d \in digits}

lmsAnswer(id) ==
    /\ UNCHANGED rvars
    /\ \E chunk \in FrameChoices(FrameDigits) \cup Frames941(FrameDigits) :
          onData(id, chunk)

InitSession ==
    /\ ManagerIdleWith(TRUE)
    /\ LibraryIdle
    /\ ReassemblerIdle
    /\ \E required \in BOOLEAN : ClientNew(required)

NextSession ==
    \/ \E r \in Reqs : performLogin(r)
    \/ performLoginCatch
    \/ \E r \in Reqs : patronStatus(r)
    \/ \E id \in SockIds : connected(id)
    \/ \E id \in SockIds : socketError(id)
    \/ \E id \in SockIds : connectTimeout(id)
    \/ \E id \in SockIds : socketClose(id)
    \/ \E r \in Reqs : requestTimeout(r)
    \/ \E id \in SockIds : lmsAnswer(id)

SpecSession == InitSession /\ [][NextSession]_vars

\* The blockPatron calls made on the client.
BlockCalls == {r \in Reqs : reqs[r].kind = "block"}

\* action(client) of a call the manager runs: client.blockPatron(...), once
\* per call.
managedBlockPatron(r) ==
    /\ \E o \in Ops : ops[o].status = "running"
    /\ BlockCalls \subseteq returned
    /\ blockPatron(r)

\* _executeInner after await action(client) of a Block Patron: the promise of
\* the client's call r has settled, fulfilled if the frame was written.
blockPatronReturned(o, r) ==
    /\ UNCHANGED <<cvars, rvars, hvars, kvars, fvars, pvars, tvars>>
    /\ r \in BlockCalls \ returned
    /\ reqs[r].status = "done"
    /\ returned' = returned \cup {r}
    /\ ActionEnds(o, reqs[r].outcome = "written")

\* SipConnectionManager.blockPatron on a branch without credentials, one call
\* at a time, on a client that other callers use as well.
InitBlock ==
    /\ ManagerIdle
    /\ LibraryIdle
    /\ ReassemblerIdle
    /\ ClientNew(TRUE)

NextBlock ==
    \/ \E b \in BranchIds : execute(1, b)
    \/ StartOp(1)
    \/ \E r \in Reqs : managedBlockPatron(r)
    \/ \E r \in Reqs : blockPatronReturned(1, r)
    \/ \E r \in Reqs, fromAllocator \in BOOLEAN : sendRaw(r, fromAllocator, "none")
    \/ \E id \in SockIds : connected(id)
    \/ \E id \in SockIds : socketError(id)
    \/ \E id \in SockIds : connectTimeout(id)
    \/ \E id \in SockIds : socketClose(id)
    \/ \E r \in Reqs : requestTimeout(r)
    \/ \E id \in SockIds : socketData(id)

SpecBlock == InitBlock /\ [][NextBlock]_vars

Bytes == {"x", "SP", "LF", "CR"}

RECURSIVE BytesUpTo(_)
BytesUpTo(n) ==
    IF n = 0 THEN {<<>>}
    ELSE LET shorter == BytesUpTo(n - 1) IN
         shorter \cup {Append(str, b) : str \in shorter, b \in Bytes}

\* Streams of complete frames, each ended by CR or CR LF: every string of up
\* to MaxStream bytes that ends so, and the answers to two requests, numbered
\* 0 and 1, one after the other.
Streams ==
    {str \in BytesUpTo(MaxStream) :
        /\ str # <<>>
        /\ \/ str[Len(str)] = "CR"
           \/ Len(str) >= 2 /\ str[Len(str)] = "LF" /\ str[Len(str) - 1] = "CR"}
    \cup {<<"x", "AY0AZ", "CKOK", "CR", "x", "AY1AZ", "CKOK", "CR">>,
          <<"x", "AY0AZ", "CKOK", "CR", "LF", "x", "AY1AZ", "CKOK", "CR", "LF">>}

\* The table of a client that has sent two requests, numbered 0 and 1.
TwoPending == {[seq |-> 0, req |-> 1], [seq |-> 1, req |-> 2]}

\* A connected client with two requests sent, and the stream the LMS answers
\* with.
InitReassembler ==
    /\ ManagerIdle
    /\ LibraryIdle
    /\ socket = 1
    /\ socks = [id \in SockIds |-> IF id = 1 THEN "open" ELSE "unused"]
    /\ connectPromise = 0
    /\ pending = TwoPending
    /\ nextSeqNum = 2
    /\ buffer = <<>>
    /\ checksumRequired = TRUE
    /\ reqs = [r \in Reqs |-> IF r <= 2
                                THEN [IdleReq EXCEPT !.status = "pending",
                                                     !.seq = r - 1,
                                                     !.kind = "command",
                                                     !.sock = 1]
                                ELSE IdleReq]
    /\ clast = NoCLast
    /\ stream \in Streams
    /\ whole = stream
    /\ dispatched = <<>>

\* The socket delivers the stream in reads of any sizes.
NextReassembler ==
    \E n \in 1..(2 * MaxStream) : socketRead(1, n)

SpecReassembler == InitReassembler /\ [][NextReassembler]_vars

\* The event bus as the manager and its subscribers drive it.
InitHub ==
    /\ ManagerIdle
    /\ ClientNew(TRUE)
    /\ ReassemblerIdle
    /\ HubNew
    /\ MaskIdle
    /\ FormatIdle
    /\ BlockIdle
    /\ ParseIdle
    /\ TwinIdle

NextHub ==
    \/ \E id \in ListenerIds \ {"forward"}, throws \in BOOLEAN : on(id, throws)
    \/ \E id \in ListenerIds : off(id)
    \/ emitLog
    \/ runImmediate

SpecHub == InitHub /\ [][NextHub]_vars

\* The masking service applied to the event of one operation, with or
\* without a master key in the environment.
InitMask ==
    /\ ManagerIdle
    /\ ClientNew(TRUE)
    /\ ReassemblerIdle
    /\ HubNew
    /\ masterKey \in BOOLEAN
    /\ payload = NoPayload
    /\ event = NoEvent
    /\ FormatIdle
    /\ BlockIdle
    /\ ParseIdle
    /\ TwinIdle

NextMask ==
    \/ \E action \in Actions : buildPayload(action)
    \/ maskPayload

SpecMask == InitMask /\ [][NextMask]_vars

\* The formatters called with any strings, and their frames written.
InitFormat ==
    /\ ManagerIdle
    /\ ClientNew(TRUE)
    /\ ReassemblerIdle
    /\ HubNew
    /\ MaskIdle
    /\ request \in Calls
    /\ frame = NoFrame
    /\ written = NoFrame
    /\ BlockIdle
    /\ ParseIdle
    /\ TwinIdle

NextFormat ==
    \/ format
    \/ socketWrite

SpecFormat == InitFormat /\ [][NextFormat]_vars

\* The response parsers given the frames of an LMS.
InitParse ==
    /\ ManagerIdle
    /\ ClientNew(TRUE)
    /\ ReassemblerIdle
    /\ HubNew
    /\ MaskIdle
    /\ FormatIdle
    /\ BlockIdle
    /\ answer \in Responses
    /\ rawFrame = ResponseFrame(answer)
    /\ parsed = NoParsed
    /\ TwinIdle

NextParse == parse

SpecParse == InitParse /\ [][NextParse]_vars

\* The two values are alike but for the strings stored under password keys.
RECURSIVE AlikeButPasswords(_, _, _)
AlikeButPasswords(p, q, underPassword) ==
    /\ p.t = q.t
    /\ CASE p.t = "string" -> underPassword \/ p.v = q.v
         [] p.t = "number" -> p.v = q.v
         [] p.t = "array" -> /\ DOMAIN p.v = DOMAIN q.v
                             /\ \A i \in DOMAIN p.v :
                                   AlikeButPasswords(p.v[i], q.v[i], FALSE)
         [] p.t = "object" -> /\ DOMAIN p.v = DOMAIN q.v
                              /\ \A k \in DOMAIN p.v :
                                    AlikeButPasswords(p.v[k], q.v[k], isPasswordKey(k))

\* maskPayload given pairs of payloads that differ in password strings alone.
InitTwin ==
    /\ ManagerIdle
    /\ ClientNew(TRUE)
    /\ ReassemblerIdle
    /\ HubNew
    /\ masterKey \in BOOLEAN
    /\ payload = NoPayload
    /\ event = NoEvent
    /\ FormatIdle
    /\ BlockIdle
    /\ ParseIdle
    /\ twin \in {pq \in Payloads \X Payloads : AlikeButPasswords(pq[1], pq[2], FALSE)}
    /\ logged = NoTwin

NextTwin == maskPayloadTwice

SpecTwin == InitTwin /\ [][NextTwin]_vars

\* ------------------------------------------------------------------ claims

Known(b) == b \in DOMAIN breakers

InFlightOn(b) == {o \in Ops : InFlight(o) /\ ops[o].branch = b}

\* Call o takes the step that runs its chained callback.
Starts(o) == ops[o].status = "queued" /\ ops'[o].status # "queued"

\* The step records a failure / a success on branch b's breaker record.
FailureRecorded(b) ==
    /\ last'.step \in {"action", "performLogin", "simulate"}
    /\ last'.result = "fail" /\ last'.branch = b

SuccessRecorded(b) ==
    /\ last'.step \in {"action", "simulate", "recordSuccess"}
    /\ last'.result = "ok" /\ last'.branch = b

\* C1: in every reachable state each branch has at most one call between
\* its start (client acquisition, frame send) and its settlement.
C1_AtMostOneInFlight ==
    \A b \in BranchIds : Cardinality(InFlightOn(b)) <= 1

\* C2: a call is started (client acquisition, frame send), and so updates the
\* breaker and emits its event, only after every call submitted before it for
\* the same branch has settled.
C2_StartsAfterEarlierSettled ==
    \A o \in Ops : InFlight(o) => before[o] = {}

\* C3: a failed call never breaks the queue: the chain handle never rejects,
\* the callback of every call is run, and every call that was enqueued
\* eventually settles.
C3_FailuresNeverBreakTheChain ==
    /\ [](\A b \in BranchIds : queues[b].state # "rejected")
    /\ [](\A o \in Ops : ops[o].status # "dropped")
    /\ \A o \in Ops : (ops[o].status = "queued") ~> (ops[o].status = "idle")

\* A call chained behind one that was rejected has just been started and is
\* in flight.
C3_Witness ==
    /\ last.step = "getClient" /\ last.result = "admit" /\ last.behind
    /\ \E o \in Ops : InFlight(o) /\ ops[o].branch = last.branch

C5_OpenFailsFast ==
    [][\A o \in Ops :
        LET b == ops[o].branch IN
        (/\ Starts(o) /\ ~ops[o].skip /\ Known(b)
         /\ breakers[b].state = "OPEN"
         /\ breakers[b].nextRetryAt # {}
         /\ \A r \in breakers[b].nextRetryAt : now < r)
        => /\ last'.step = "getClient" /\ last'.branch = b
           /\ last'.result = "CircuitOpen"
           /\ ops'[o].status = "idle"
           /\ clients' = clients
           /\ breakers' = breakers]_vars

\* A call has just been refused with CircuitOpen before the retry time.
C5_Witness ==
    \E b \in DOMAIN breakers :
        /\ last.step = "getClient" /\ last.result = "CircuitOpen" /\ last.branch = b
        /\ breakers[b].state = "OPEN"
        /\ \E r \in breakers[b].nextRetryAt : now < r

\* C6, admission: once the retry time is reached the next call started moves
\* the breaker OPEN -> HALF_OPEN and is admitted with the probe lock set, and
\* a call started while the lock is set fails with ProbeInFlight.
C6_ProbeAdmission ==
    [][\A o \in Ops :
        LET b == ops[o].branch IN
        /\ (/\ Starts(o) /\ ~ops[o].skip /\ Known(b)
            /\ breakers[b].state = "OPEN"
            /\ breakers[b].nextRetryAt # {}
            /\ \A r \in breakers[b].nextRetryAt : now >= r)
           => /\ breakers'[b].state = "HALF_OPEN"
              /\ breakers'[b].halfOpenLocked
              /\ ops'[o].status \in {"login", "running"}
        /\ (/\ Starts(o) /\ ~ops[o].skip /\ Known(b)
            /\ breakers[b].halfOpenLocked)
           => /\ last'.result = "ProbeInFlight"
              /\ ops'[o].status = "idle"]_vars

\* C6: at most one call admitted as the HALF_OPEN probe of a branch is in
\* flight at a time.
C6_AtMostOneProbe ==
    \A b \in BranchIds :
        Cardinality({o \in InFlightOn(b) : ops[o].probe}) <= 1

\* C7: in HALF_OPEN a recorded success closes the breaker with failure count
\* 0, backoff index 0 and the lock cleared; a recorded failure re-opens it and
\* advances the backoff index by one unless it is at the last slot already.
C7_HalfOpenOutcome ==
    [][\A b \in DOMAIN breakers \cap DOMAIN breakers' :
        breakers[b].state = "HALF_OPEN"
        => /\ SuccessRecorded(b)
              => /\ breakers'[b].state = "CLOSED"
                 /\ breakers'[b].failureCount = 0
                 /\ breakers'[b].backoffIndex = 0
                 /\ ~breakers'[b].halfOpenLocked
           /\ FailureRecorded(b)
              => /\ breakers'[b].state = "OPEN"
                 /\ breakers'[b].backoffIndex =
                       IF breakers[b].backoffIndex = 4
                       THEN 4 ELSE breakers[b].backoffIndex + 1]_vars

\* A failure recorded in HALF_OPEN at the last slot of the schedule.
C7_Witness ==
    \E b \in DOMAIN breakers :
        /\ last.result = "fail" /\ last.pre = "HALF_OPEN" /\ last.branch = b
        /\ breakers[b].state = "OPEN"
        /\ breakers[b].backoffIndex = 4 /\ hist[b].trips >= 6

\* C8: a call refused by the gate (CircuitOpen, ProbeInFlight) leaves the
\* failure count, the last-failure time, the backoff index and the retry
\* time of its branch as they were.
C8_GateRejectionNotCounted ==
    [][\A b \in DOMAIN breakers :
        (/\ last'.step = "getClient" /\ last'.branch = b
         /\ last'.result \in {"CircuitOpen", "ProbeInFlight"})
        => /\ b \in DOMAIN breakers'
           /\ breakers'[b].failureCount = breakers[b].failureCount
           /\ breakers'[b].lastFailureAt = breakers[b].lastFailureAt
           /\ breakers'[b].backoffIndex = breakers[b].backoffIndex
           /\ breakers'[b].nextRetryAt = breakers[b].nextRetryAt]_vars

\* A call has just been refused with ProbeInFlight.
C8_Witness ==
    \E b \in DOMAIN breakers :
        /\ last.step = "getClient" /\ last.result = "ProbeInFlight" /\ last.branch = b
        /\ breakers[b].state = "HALF_OPEN" /\ breakers[b].halfOpenLocked

\* C9: a CLOSED breaker has a failure count below the threshold; the step
\* that moves a breaker to OPEN resets nothing (the count it leaves is the
\* count the recorded failure gave, one above the old one, and the backoff
\* index does not go down); a count or a backoff index goes down only in a
\* step that leaves the breaker CLOSED with both at zero, as every step that
\* closes a breaker does.
C9_CountsResetOnlyOnClose ==
    /\ [](\A b \in DOMAIN breakers :
            breakers[b].state = "CLOSED" => breakers[b].failureCount < 3)
    /\ [][\A b \in DOMAIN breakers \cap DOMAIN breakers' :
            /\ (/\ breakers'[b].state = "OPEN"
                /\ breakers[b].state # "OPEN" \/ FailureRecorded(b))
               => /\ breakers'[b].failureCount = breakers[b].failureCount + 1
                  /\ breakers'[b].backoffIndex >= breakers[b].backoffIndex
            /\ (\/ breakers'[b].failureCount < breakers[b].failureCount
                \/ breakers'[b].backoffIndex < breakers[b].backoffIndex
                \/ breakers[b].state # "CLOSED" /\ breakers'[b].state = "CLOSED")
               => /\ breakers'[b].state = "CLOSED"
                  /\ breakers'[b].failureCount = 0
                  /\ breakers'[b].backoffIndex = 0]_vars

\* A success recorded on a HALF_OPEN breaker (three or more failures counted,
\* backoff index advanced) has just closed it with both at zero.
C9_Witness ==
    \E b \in DOMAIN breakers :
        /\ last.result = "ok" /\ last.pre = "HALF_OPEN" /\ last.branch = b
        /\ breakers[b].state = "CLOSED"
        /\ breakers[b].failureCount = 0 /\ breakers[b].backoffIndex = 0
        /\ breakers[b].lastFailureAt # {}

ExpectedBackoff(k) ==
    CASE k = 1 -> 5000
      [] k = 2 -> 10000
      [] k = 3 -> 20000
      [] k = 4 -> 40000
      [] OTHER -> 60000

\* C10: the k-th trip to OPEN since the last recorded success sets the retry
\* time to now + 5 s, 10 s, 20 s, 40 s, 60 s and 60 s from then on, and the
\* backoff index stays within 0..4.
C10_BackoffSchedule ==
    /\ [](\A b \in DOMAIN breakers : breakers[b].backoffIndex \in 0..4)
    /\ [][\A b \in DOMAIN breakers \cap DOMAIN breakers' :
            (FailureRecorded(b) /\ breakers'[b].state = "OPEN")
            => /\ hist'[b].trips = hist[b].trips + 1
               /\ breakers'[b].nextRetryAt =
                     {now + ExpectedBackoff(hist'[b].trips)}]_vars

\* A 6th trip in a row has set the retry time 60 s ahead.
C10_Witness ==
    \E b \in DOMAIN breakers :
        /\ hist[b].trips >= 6 /\ breakers[b].state = "OPEN"
        /\ last.result = "fail" /\ last.branch = b
        /\ breakers[b].nextRetryAt = {now + 60000}

\* C11: in every reachable state of a client the pending table holds at most
\* ten entries, no two under the same sequence number, each number in 0..9.
C11_PendingTableKeys ==
    /\ Cardinality(pending) <= 10
    /\ \A e \in pending : e.seq \in 0..9
    /\ \A e, f \in pending : e.seq = f.seq => e = f

\* All ten numbers are pending, the last entry made by a call of the model.
C11_Witness ==
    /\ Cardinality(pending) = 10
    /\ \E e \in pending : e.req \in Reqs

CyclicDistance(from, n) == (n - from + 10) % 10

\* C12: an allocation returns the free number nearest to the cursor in the
\* cyclic order cursor, cursor + 1, ..., 9, 0, ... and moves the cursor one
\* past it (9 -> 0); it fails with ClientAtCapacity, returning nothing and
\* moving nothing, exactly when all ten numbers are pending.
C12_SequenceAllocation ==
    [][\A r \in Reqs :
        sendRaw(r, TRUE, "none") =>
            LET free == {n \in 0..9 : \A e \in pending : e.seq # n} IN
            IF free = {}
            THEN /\ clast'.settled = {[seq |-> NoDigit, result |-> "ClientAtCapacity"]}
                 /\ nextSeqNum' = nextSeqNum /\ pending' = pending
            ELSE \E n \in free :
                    /\ \A m \in free :
                          CyclicDistance(nextSeqNum, n) <= CyclicDistance(nextSeqNum, m)
                    /\ clast'.settled = {[seq |-> n, result |-> "sent"]}
                    /\ nextSeqNum' = IF n = 9 THEN 0 ELSE n + 1
                    /\ pending' = pending \cup {[seq |-> n, req |-> r]}]_vars

\* An allocation has just failed for want of a free number.
C12_Witness ==
    /\ clast.step = "sendRaw"
    /\ clast.settled = {[seq |-> NoDigit, result |-> "ClientAtCapacity"]}
    /\ {e.seq : e \in pending} = 0..9

\* The sequence digit a frame carries: the d of its trailer AY<d>AZ<HHHH>\r.
trailerSeq(message) ==
    LET n == Len(message) IN
    IF /\ n >= 3
       /\ message[n] = "CR"
       /\ message[n - 1] \in {"CKOK", "CKBAD"}
       /\ IsAY(message[n - 2])
    THEN AYDigit(message[n - 2]) ELSE NoDigit

\* C13: a frame is never delivered to the wrong caller; a frame carrying the
\* sequence digit d settles no request but the one pending under d.
C13_DeliveredToOwnDigit ==
    clast.step = "data" /\ Len(clast.handled) = 1
        => LET d == trailerSeq(clast.handled[1]) IN
           d # NoDigit => \A e \in clast.settled : e.seq = d

C15_RequestTimeout ==
    [][/\ clast'.step = "timeout"
          => \E r \in Reqs :
                /\ reqs[r].status = "pending"
                /\ clast'.settled = {[seq |-> reqs[r].seq, result |-> "RequestTimeout"]}
                /\ pending' = {e \in pending : e.req # r}
                /\ reqs'[r].status = "done"
                /\ socket' = 0
                /\ \A id \in SockIds : socks'[id] \notin {"connecting", "open"}
                                          \/ (id # socket /\ socks'[id] = socks[id])
       /\ clast.step = "timeout" /\ clast'.step \in {"sendRaw", "connect"}
            /\ (\A e \in clast'.settled : e.result # "ClientAtCapacity")
          => /\ clast'.step = "connect"
             /\ pending' = pending
             /\ connectPromise = 0
                  => /\ socket' # 0
                     /\ socks[socket'] = "unused"
                     /\ socks'[socket'] = "connecting"]_vars

C15_Witness ==
    /\ clast.step = "timeout"
    /\ socket = 0
    /\ \E id \in SockIds : socks[id] = "destroyed"
    /\ pending # {}
    /\ \E r \in Reqs : reqs[r].status = "idle"

\* C16: when a socket of the client reports an error or closes, every request
\* pending at that moment is rejected with the reported error, its timer can
\* no longer fire, and the pending table is empty afterwards.
C16_CleanupOnCloseOrError ==
    [][clast'.step \in {"SocketError", "close"}
         => LET err == IF clast'.step = "close" THEN "ConnectionClosed"
                       ELSE "SocketError"
            IN /\ pending' = {}
               /\ \A e \in pending :
                     /\ [seq |-> e.seq, result |-> err] \in clast'.settled
                     /\ reqs'[e.req].status = "done"
               /\ \A e \in clast'.settled : e.result = err]_vars

C16_Witness ==
    /\ clast.step = "close"
    /\ Cardinality(clast.settled) >= 2
    /\ \A e \in clast.settled : e.result = "ConnectionClosed"
    /\ pending = {}

RECURSIVE Flatten(_)
Flatten(seqs) ==
    IF seqs = <<>> THEN <<>> ELSE Head(seqs) \o Flatten(Tail(seqs))

\* C17: however a stream of complete CR-terminated frames is cut into reads,
\* the messages dispatched, in order, are those of a single read of the whole
\* stream, and the callers completed are the same: two answers in one read
\* complete one caller each.
C17_ChunkingInvisible ==
    LET single == processBuffer(whole, <<>>).messages IN
    /\ processBuffer(buffer \o stream, Flatten(dispatched)).messages = single
    /\ stream = <<>>
         => /\ Flatten(dispatched) = single
            /\ pending = handleAll(TwoPending, single, checksumRequired,
                                   [settled |-> {}, events |-> <<>>]).pending

C17_Witness ==
    /\ stream = <<>>
    /\ Len(dispatched) >= 2
    /\ \E i \in DOMAIN dispatched : Len(dispatched[i]) = 2
    /\ pending = {}

\* The attempts of performLogin are its Login calls in slot order; the error
\* it throws is that of the last.
LastLogin == CHOOSE r \in LoginCalls : \A q \in LoginCalls : q <= r

\* C18: when the third login attempt has failed, the handshake fails with
\* LoginRejected and three Login frames have been sent.
C18_ExhaustionIsLoginRejected ==
    Cardinality(FailedLogins) = LoginRetries + 1
        => /\ reqs[LastLogin].outcome = "rejected"
           /\ \A r \in FailedLogins : reqs[r].outcome # "unsent"

\* C19: a command frame is written only to a connection on which a Login has
\* been answered with 941.
C19_NoCommandBeforeLogin ==
    \A r \in Reqs :
        reqs[r].kind = "command" /\ reqs[r].status = "pending"
            => \E q \in Reqs : reqs[q].outcome = "941" /\ reqs[q].sock = reqs[r].sock

\* C20: the step in which an operation completes successfully hands exactly
\* one transaction event to the event bus, the breaker having recorded the
\* success; no other step, and so no failing operation, hands one over.
C20_OneEventPerSuccess ==
    IF last.step = "action" /\ last.result = "ok"
    THEN /\ last.events = 1
         /\ breakers[last.branch].failureCount = 0
         /\ breakers[last.branch].state = "CLOSED"
    ELSE last.events = 0

C20_Witness ==
    /\ last.step = "action"
    /\ last.result = "ok"
    /\ last.events = 1
    /\ last.pre = "HALF_OPEN"

\* C21: every listener subscribed has been called with exactly the events
\* whose callbacks ran since it subscribed, once each and in the order of
\* their emitLog calls.
C21_DeliveredOnceInOrder ==
    \A id \in ListenerIds :
        Subscribed(id) =>
            received[id] = [i \in 1..(Ran - since[id]) |-> since[id] + i]

\* emitLog calls no listener: delivery is left to the event loop.
C21_Deferred ==
    [][emitted' # emitted => received' = received]_vars

\* No listener is called with an event twice or with an earlier event after a
\* later one.
C21_InOrderAtMostOnce ==
    \A id \in ListenerIds :
        \A i, j \in DOMAIN received[id] : i < j => received[id][i] < received[id][j]

Sensitive == {"patronBarcode", "itemBarcode", "patronName", "pin", "password"}

\* C22: in the event maskPayload returns for an operation, no patron
\* barcode, item barcode, patron name, PIN or password of the request or the
\* response stands in clear text: each is masked or redacted.
C22_NoClearTextPII ==
    \A f \in event.fields :
        (f.holds \in Sensitive /\ ~f.empty) => f.form \in {"masked", "redacted"}

\* C23: in the step in which reinitialize disconnects the clients and
\* replaces the configuration, breaker and queue maps, no call of any branch
\* is in flight.
C23_NothingInFlightAtTeardown ==
    last.step = "reinitialize" => \A o \in Ops : ~InFlight(o)

\* C24: no step of a call that was in flight when shutdown() ran puts a
\* client into the clients map, so that once these calls have settled the
\* manager holds no client and no socket of theirs is open.
C24_NoClientAfterShutdown ==
    [][\A o \in Ops :
          (ops[o].shut /\ InFlight(o) /\ ops'[o] # ops[o])
              => (clients' \subseteq clients)]_vars

\* C25: the step in which a call fails for a reason other than the gate (its
\* login, after all attempts, or its action) raises the failure count of its
\* branch by exactly one, and the third failure counted leaves the breaker
\* OPEN.
C25_FailureCountedOnce ==
    [][\A b \in DOMAIN breakers \cap DOMAIN breakers' :
          (/\ last'.step \in {"action", "performLogin"}
           /\ last'.result = "fail" /\ last'.branch = b)
          => /\ breakers'[b].failureCount = breakers[b].failureCount + 1
             /\ (breakers'[b].failureCount >= FAILURE_THRESHOLD
                    => breakers'[b].state = "OPEN")]_vars

\* A login that failed after its attempts has just been counted as the third
\* failure and opened the breaker.
C25_Witness ==
    /\ last.step = "performLogin" /\ last.result = "fail" /\ last.pre = "CLOSED"
    /\ last.branch \in DOMAIN breakers
    /\ breakers[last.branch].failureCount = FAILURE_THRESHOLD
    /\ breakers[last.branch].state = "OPEN"

\* C26: every frame written to a socket ends with the AY<seq>AZ<checksum>
\* trailer, and its checksum verifies against the bytes that were written,
\* that is, after the transliteration to ASCII at the write.
C26_WrittenFrameVerifies ==
    written # NoFrame => verifyChecksumOf(written)

\* The frame as the formatter returned it, before the write, verifies.
C26_FormattedFrameVerifies ==
    frame # NoFrame => verifyChecksumOf(frame)

\* The occurrences of character c in str.
Count(str, c) == Len(SelectSeq(str, LAMBDA x : x = c))

\* C27: a frame built by a formatter from any caller-supplied strings
\* contains exactly one carriage return, as its last character, and exactly
\* as many '|' delimiters as the command has variable fields.
C27_OneTerminatorAndFieldDelimiters ==
    frame # NoFrame =>
        /\ Count(frame, CR) = 1
        /\ frame[Len(frame)] = CR
        /\ Count(frame, Pipe) = FieldCount(request)

\* The sanitizer is idempotent, and its result holds no delimiter and no
\* control character.
C27_SanitizerIdempotent ==
    \A value \in Strings :
        /\ sanitizeSipField(sanitizeSipField(value)) = sanitizeSipField(value)
        /\ \A i \in 1..Len(sanitizeSipField(value)) :
              sanitizeSipField(value)[i] > 31 /\ sanitizeSipField(value)[i] # Pipe

\* What removes an entry, and how its caller is then completed.
Causes ==
    [data |-> {"resolved", "ChecksumMismatch"},
     timeout |-> {"RequestTimeout"},
     close |-> {"ConnectionClosed"},
     SocketError |-> {"SocketError"}]

\* The entry of call r is in the table.
HasEntry(r) == \E e \in pending : e.req = r

\* C28: an entry installed by a send is eventually removed, in a step of
\* exactly one cause (a routed response, a checksum rejection, its timer, a
\* socket close or error) that completes its caller once; a completed caller
\* stays completed, a caller is completed only with the removal of its entry,
\* and a timer fires only for an entry that is in the table.
C28_PendingEntryLifecycle ==
    /\ [](\A r \in Reqs : reqs[r].status = "pending" <=> HasEntry(r))
    /\ [][/\ \A e \in pending \ pending' :
                /\ clast'.step \in DOMAIN Causes
                /\ Cardinality({x \in clast'.settled : x.seq = e.seq}) = 1
                /\ \A x \in clast'.settled :
                      x.seq = e.seq => x.result \in Causes[clast'.step]
                /\ reqs[e.req].status = "pending"
                /\ reqs'[e.req].status = "done"
          /\ \A r \in Reqs :
                /\ reqs[r].status = "done" => reqs'[r].status = "done"
                /\ reqs[r].status = "pending" /\ reqs'[r].status # "pending"
                      => \E e \in pending \ pending' : e.req = r
          /\ clast'.step = "timeout"
                => \E e \in pending \ pending' :
                      clast'.settled = {[seq |-> e.seq, result |-> "RequestTimeout"]}
       ]_vars
    /\ \A r \in Reqs : (reqs[r].status = "pending") ~> (reqs[r].status = "done")

\* All the calls were sent and are completed, the last one by its timer, and
\* the table is empty.
C28_Witness ==
    /\ \A r \in Reqs : reqs[r].status = "done"
    /\ clast.step = "timeout"
    /\ clast.settled # {}
    /\ pending = {}

\* The calls whose entries are in the table keep their entries and their
\* timers in the step.
EntriesKept ==
    /\ pending \subseteq pending'
    /\ \A q \in Reqs : reqs[q].status = "pending" => reqs'[q] = reqs[q]

\* C29: a sendRaw whose sequence number has an entry in the pending table
\* when, the connection ensured, it comes to install its own, is rejected
\* with SequenceInUse: it installs no entry and writes no frame, and the entry
\* under that number, its caller and its timer stay as they are. This holds
\* for a call made on a live connection and for a call that waited for a
\* connect attempt, when that attempt succeeds; no call is rejected so unless
\* the number has an entry.
C29_SequenceInUse ==
    [][/\ clast'.step = "sendRaw"
          => \A x \in clast'.settled :
                /\ pendingHas(pending, x.seq)
                      => /\ x.result = "SequenceInUse"
                         /\ pending' = pending
                         /\ EntriesKept
                         /\ \A r \in Reqs : reqs'[r].status = "pending"
                                               => reqs[r].status = "pending"
                         /\ socket' = socket /\ socks' = socks
                /\ x.result = "SequenceInUse" => pendingHas(pending, x.seq)
       /\ clast'.step = "connected" /\ connectPromise # 0 /\ connectPromise' = 0
          => /\ \A r \in Waiting :
                   pendingHas(pending, reqs[r].seq)
                      => /\ [seq |-> reqs[r].seq, result |-> "SequenceInUse"]
                               \in clast'.settled
                         /\ reqs'[r].status = "done"
                         /\ EntriesKept
             /\ \A x \in clast'.settled :
                   x.result = "SequenceInUse" => pendingHas(pending', x.seq)
       ]_vars

\* A call made with number 0 while the entry of an earlier call is under 0
\* has just been rejected, and that entry is still in the table.
C29_Witness ==
    /\ clast.step = "sendRaw"
    /\ clast.settled = {[seq |-> 0, result |-> "SequenceInUse"]}
    /\ \E e \in pending : e.seq = 0 /\ reqs[e.req].status = "pending"
    /\ \E r \in Reqs : reqs[r].status = "done"

\* The blockPatron call r of the client completes in the step, its frame
\* written.
Written(r) ==
    /\ reqs[r].status # "done"
    /\ reqs'[r].kind = "block" /\ reqs'[r].status = "done"
    /\ reqs'[r].outcome = "written"

\* C30: a Block Patron call completes with the write of its frame, in the
\* call itself or when the connection it waited for is made, never on a
\* response; it has no entry in the pending table at any time, the table is
\* the same after the call as before (a connect callback adds the entries of
\* the sendRaw calls that waited with it, no other), and the manager records
\* the written call as a success.
C30_BlockPatronFireAndForget ==
    [][/\ \A r \in Reqs :
             Written(r)
                => /\ clast'.step \in {"blockPatron", "connected"}
                   /\ clast'.step = "blockPatron" => pending' = pending
                   /\ clast'.step = "connected"
                         => /\ pending \subseteq pending'
                            /\ \A e \in pending' \ pending :
                                  reqs[e.req].status = "connect"
                                     /\ reqs[e.req].kind # "block"
       /\ \A e \in pending' : reqs'[e.req].kind # "block"
       /\ \A r \in returned' \ returned :
             reqs[r].outcome = "written"
                => /\ last'.step = "action" /\ last'.result = "ok"
                   /\ breakers'[last'.branch] = recordSuccess(breakers[last'.branch])
                   /\ \E o \in Ops : ops[o].status = "running" /\ ops'[o].status = "idle"
       ]_vars

\* The manager has recorded a Block Patron as a success while the table
\* holds the entry of another call, sent before it: the call did not touch it.
C30_Witness ==
    /\ last.step = "action" /\ last.result = "ok"
    /\ \E r \in returned : reqs[r].outcome = "written"
    /\ \E e \in pending : \E r \in returned : e.req < r

\* Call r is made in the step and reaches connect().
Calls_connect(r) ==
    /\ reqs[r].status = "idle" /\ reqs'[r].status # "idle"
    /\ \A x \in clast'.settled : x.result # "ClientAtCapacity"

\* C31: a call that reaches connect() while an earlier connect attempt of the
\* client is in progress joins it: it goes on only when the attempt has
\* completed, and no socket is opened for it.
C31_ConnectJoinsAttempt ==
    [][\A r \in Reqs :
          Calls_connect(r) /\ connectPromise # 0
             => /\ reqs'[r].status = "connect"
                /\ socket' = socket /\ socks' = socks]_vars

\* No socket is opened while a connect attempt is in progress, and a call
\* made with a socket that is not destroyed does not wait.
C31_NoSecondSocket ==
    [][/\ \A id \in SockIds :
             socks[id] = "unused" /\ socks'[id] # "unused" => connectPromise = 0
       /\ \A r \in Reqs :
             Calls_connect(r) /\ SocketLive => reqs'[r].status # "connect"]_vars

\* The step is a step of a call on branch x: the call is chained on x's
\* queue, or its callback, its login or its action takes a step.
StepOn(x) ==
    \/ last'.step # "none" /\ last'.branch = x
    \/ \E o \in Ops : /\ ops[o].status = "idle" /\ ops'[o].status = "queued"
                      /\ ops'[o].branch = x

\* What the manager holds for branch y.
BranchState(y) ==
    <<breakers[y], y \in clients, queues[y], hist[y],
      {<<o, ops[o]>> : o \in {p \in Ops : Unsettled(p) /\ ops[p].branch = y}}>>

\* C32: the branches are independent. A step of a call on branch x leaves the
\* breaker record, the cached client, the queue and the calls of every other
\* branch as they were; a call waits only behind calls of its own branch, and
\* a call at the head of its queue can start whatever the other branches'
\* calls and breakers are doing.
C32_BranchesIndependent ==
    /\ [][\A x \in Branches : \A y \in Branches \ {x} :
             StepOn(x) => BranchState(y)' = BranchState(y)]_vars
    /\ [](\A o \in Ops :
             ops[o].status = "queued" =>
                /\ ops[o].prev # 0 => /\ ops[ops[o].prev].branch = ops[o].branch
                                      /\ Unsettled(ops[o].prev)
                /\ ops[o].prev = 0 /\ Caught = {} => ENABLED StartOp(o))

\* A call on east has started and is running while a call on main is in
\* flight and main's breaker, having failed, is not closed.
C32_Witness ==
    \E o \in Ops, p \in Ops :
        /\ ops[o].branch = "main" /\ InFlight(o)
        /\ breakers["main"].state = "HALF_OPEN"
        /\ ops[p].branch = "east" /\ ops[p].status = "running"
        /\ last.step = "getClient" /\ last.branch = "east"
        /\ breakers["east"].state = "CLOSED"

\* C33: a branch whose breaker is OPEN has no cached client.
C33_NoClientWhileOpen ==
    \A b \in DOMAIN breakers : breakers[b].state = "OPEN" => b \notin clients

\* C34: when a tag that is not a repeated one occurs more than once in a
\* response, the scalar field holds the value of its first occurrence: every
\* entry of parseFields is the first of the values parseFieldsMulti collected
\* for the tag, and screenMessage is screenMessages[0].
C34_FirstOccurrence ==
    parsed.status = "parsed" =>
        /\ \A tag \in DOMAIN parsed.fields \ {Lit("AY")} :
              parsed.fields[tag] = parseFieldsMulti(rawFrame)[tag][1]
        /\ answer.msgType \in {"12", "16", "64"} /\ parsed.result.screenMessages # <<>>
              => parsed.result.screenMessage = {parsed.result.screenMessages[1]}

\* The tag occurs once among the fields of the response sent.
OccursOnce(tag) ==
    Cardinality({i \in DOMAIN answer.fields : answer.fields[i].tag = tag}) = 1

\* C35: the threshold of tag discovery is the length of the response's fixed
\* header, so an institution id that follows the header at once, in the first
\* segment, is found by parseFields with the value sent, and a parser that
\* returns it returns that value.
C35_ThresholdIsHeaderLength ==
    parsed.status = "parsed" =>
        /\ fixedFieldLengths(Lit(answer.msgType)) = Len(FixedHeader(answer.msgType))
        /\ answer.fields[1].tag = Lit("AO") /\ OccursOnce(Lit("AO")) =>
              /\ Lit("AO") \in DOMAIN parsed.fields
              /\ parsed.fields[Lit("AO")] = answer.fields[1].value
              /\ answer.msgType \in {"12", "16"}
                    => parsed.result.institutionId = answer.fields[1].value

\* C36: the 'close' event of a socket the client had destroyed (after a
\* request timeout or disconnect()) leaves a connection opened afterwards
\* alone: this.socket still refers to the newer socket and no request sent on
\* it is rejected.
C36_StaleCloseIgnored ==
    [][\A id \in SockIds :
          /\ socks[id] = "destroyed" /\ socks'[id] = "closed"
          /\ socket # 0 /\ socket # id
          => /\ socket' = socket
             /\ pending' = pending
             /\ \A r \in Reqs : reqs[r].status = "pending" => reqs'[r] = reqs[r]]_vars

\* C37: a failure while the transaction event is masked or emitted does not
\* change the result of a call whose action succeeded: the call whose
\* recordSuccess ran and whose maskPayload threw ends as a success, and the
\* breaker record keeps the success alone.
C37_MaskingFailureHarmless ==
    [][\A o \in Ops :
          ops[o].status = "caught" /\ ops'[o].status # "caught"
             => /\ last'.result = "ok"
                /\ breakers'[ops[o].branch] = breakers[ops[o].branch]
                /\ clients' = clients]_vars

\* C38: the probe lock of a branch is set only while its breaker is HALF_OPEN
\* and a call of the branch is in flight; with no call in flight it is clear.
C38_ProbeLockHeldByCall ==
    \A b \in DOMAIN breakers :
        breakers[b].halfOpenLocked =>
            /\ breakers[b].state = "HALF_OPEN"
            /\ InFlightOn(b) # {}

\* A probe has just been admitted: the lock is set, the breaker HALF_OPEN
\* and the probing call in flight.
C38_Witness ==
    \E b \in DOMAIN breakers :
        /\ breakers[b].halfOpenLocked
        /\ breakers[b].state = "HALF_OPEN"
        /\ \E o \in InFlightOn(b) : ops[o].probe
        /\ last.step = "getClient" /\ last.result = "admit"

\* C39: two payloads that differ only in the strings stored under password
\* keys (a key containing 'password' or 'pin', or CQ, or CO), at any depth,
\* have the same maskPayload result.
C39_PasswordsDoNotShow ==
    logged # NoTwin => logged[1] = logged[2]

\* C40: the bytes of an incomplete frame received on a connection that has
\* ended are not prepended to a frame of a later connection: when connect()
\* creates a socket, and when the socket has connected, the buffer is empty.
C40_BufferEmptyOnConnect ==
    [][\A id \in SockIds :
          \/ socks[id] = "unused" /\ socks'[id] = "connecting"
          \/ socks[id] = "connecting" /\ socks'[id] = "open"
          => buffer' = <<>>]_vars
==========================================================================
